---------------------------- MODULE Spec2Model ----------------------------
(***************************************************************************)
(* A model of the structure poller of esi-sso-quart:                       *)
(*   - AppESI (src/app/esi.py): get / post / pages with ETag caching and   *)
(*     status-keyed retry and backoff;                                     *)
(*   - AppStructureState / AppExtractionState / AppObserverState           *)
(*     (src/tasks/app_tasks.py): the diff-and-append history stores;       *)
(*   - AppStructureTask.roll_extractions and the three fetch passes;       *)
(*   - AppStructurePollingTask.run_once / run: the polling scheduler.      *)
(***************************************************************************)
EXTENDS Integers, Sequences, FiniteSets, TLC

(***************************************************************************)
(* Program constants.                                                      *)
(***************************************************************************)
ESI_ERROR_SLEEP_TIME == 7
ESI_ERROR_RETRY_COUNT == 11
OK == 200
NOT_MODIFIED == 304
BAD_REQUEST == 400
UNAUTHORIZED == 401
FORBIDDEN == 403
NOT_FOUND == 404
INTERNAL_SERVER_ERROR == 500
GATEWAY_TIMEOUT == 504

\* AppConstants.ESI_ERROR_SLEEP_MODIFIERS.get(status, 1)
ESI_ERROR_SLEEP_MODIFIERS(status) ==
    IF status = INTERNAL_SERVER_ERROR THEN 19
    ELSE IF status = GATEWAY_TIMEOUT THEN 37
    ELSE 1

(***************************************************************************)
(* Bounds of the model.                                                    *)
(***************************************************************************)
\* number of pages the upstream resource has (the X-Pages header)
UpstreamPages == 3

(***************************************************************************)
(* Values.                                                                 *)
(***************************************************************************)
\* Python's None where a JSON body / list of records is expected: distinct
\* from every list of records (records are positive numbers)
None == << -1 >>
\* a missing ETag (rc.get(etag_key) is None, or no ETag header)
NoEtag == 0
\* no HTTP status received
NoStatus == 0

VARIABLES
    \* ---- AppESI ----
    cache,      \* redis: url -> [etag, json, pages]
    call,       \* the client operation: get, post, or pages (its first-page loop and result)
    sub,        \* pages(): the get() calls of pages 2..N being gathered
    \* history of the operation in progress
    nAttempts,  \* HTTP requests issued by the main call
    seen,       \* last HTTP status the main call received
    run,        \* current run of consecutive error responses with one status
    nSleeps,    \* backoff sleeps completed by the main call
    nErrors,    \* error statuses and connection-level errors met by the main call
    connError,  \* the last request of the main call met a connection-level error
    \* ---- database ----
    structure,           \* app_structure: structure_id -> row
    structure_history,   \* app_structure_history, rows in id order
    extraction_history,  \* app_extraction_history, rows in id order
    observer_history,    \* app_observer_history, rows in id order
    scheduled,           \* app_scheduled_extraction: structure_id -> row
    completed,           \* app_completed_extraction: structure_id -> row
    modifiers,           \* app_structure_modifiers: structure_id -> belt_lifetime_modifier
    refresh,             \* app_periodic_task_timestamp: corporation_id -> timestamp
    \* ---- AppStructurePollingTask ----
    outbound,   \* events put on the outbound queue by the handler that ran last;
                \* self.outbound is the queue given to the constructor
                \* (src/app/tasks/task.py:32; src/app/task.py:36 names it eventqueue)
    now,        \* the clock
    task,       \* run(): where the polling loop stands
    \* history
    lastCall,   \* the store call made last, and whether it repeated the one before
    rolled,     \* what the last roll_extractions saw and left
    tick,       \* what the current run_once has done
    \* ---- executions that overlap at their awaits ----
    upstream,        \* the corporation's extractions as the API lists them now
    passes,          \* AppStructureTask.run executions: where each stands, what it fetched and read
    callers,         \* AppStructureState.set calls: where each stands, the row its get() found
    client_session,  \* the shared session mapping: task class -> flag
    instances,       \* AppTask objects: the state of each one's task
    delivered        \* what pages() returned when the cache entry of the resource was stored

esiVars == << cache, call, sub, nAttempts, seen, run, nSleeps, nErrors, connError >>

historyVars == << structure_history, extraction_history, observer_history >>

dbVars == << structure, structure_history, extraction_history, observer_history, scheduled, completed,
             modifiers, refresh >>

taskVars == << outbound, now, task >>

overlapVars == << upstream, passes, callers, client_session, instances, delivered >>

vars == << cache, call, sub, nAttempts, seen, run, nSleeps, nErrors, connError,
           structure, structure_history, extraction_history, observer_history, scheduled, completed,
           modifiers, refresh, outbound, now, task, lastCall, rolled, tick,
           upstream, passes, callers, client_session, instances, delivered >>

(***************************************************************************)
(* The upstream API.                                                       *)
(***************************************************************************)
Urls == 1 .. UpstreamPages          \* url 1 is the resource itself (page 1), url p is ?page=p
ErrorStatuses == { BAD_REQUEST, UNAUTHORIZED, FORBIDDEN, INTERNAL_SERVER_ERROR, GATEWAY_TIMEOUT }

\* the ETag header the upstream sends
UpstreamEtag == 1
\* the JSON array the upstream serves for page p: the records of that page
PageJson(p) == << p >>

NoResponse == [ kind |-> "none", status |-> NoStatus, body |-> "none", json |-> None, etag |-> NoEtag, pages |-> 0 ]

\* What one HTTP request can come back with.
\*   kind "connect_error": aiohttp ClientConnectionError instead of a response
\*   kind "error":         any other exception instead of a response
\*   kind "response":      a response with a status; for a 200, body says how
\*                         reading the JSON goes: "ok", or response.json() raises
\*                         ("connect_error" / "error"); for an error
\*                         status, how reading the text for the log line
\*                         goes: "ok", or response.text() raises.
\* A 304 answers a request that carried If-None-Match.
Responses(url, if_none_match) ==
    { [ NoResponse EXCEPT !.kind = k ] : k \in { "connect_error", "error" } }
    \cup { [ kind |-> "response", status |-> OK, body |-> b, json |-> PageJson(url),
             etag |-> e, pages |-> UpstreamPages ] :
             b \in { "ok", "connect_error", "error" }, e \in { NoEtag, UpstreamEtag } }
    \cup { [ NoResponse EXCEPT !.kind = "response", !.status = s, !.body = b ] :
             s \in ErrorStatuses, b \in { "ok", "connect_error", "error" } }
    \cup IF if_none_match # NoEtag
         THEN { [ NoResponse EXCEPT !.kind = "response", !.status = NOT_MODIFIED ] }
         ELSE {}

(***************************************************************************)
(* AppESI.get                                                              *)
(***************************************************************************)
NoEntry == [ etag |-> NoEtag, json |-> None, pages |-> 0 ]

Idle == [ op |-> "idle", pc |-> "idle", url |-> 1, if_none_match |-> NoEtag, previous_json |-> None,
          previous_pages |-> 0, attempts_remaining |-> 0, result_status |-> NOT_FOUND,
          result_data |-> None, maxpageno |-> 0, sleep |-> 0 ]

\* get(), lines 61-85: read the cache, set If-None-Match, initialise the loop
GetBegin(url, c) ==
    [ Idle EXCEPT !.op = "get", !.pc = "request", !.url = url,
        !.previous_json = c[url].json,
        !.if_none_match = IF c[url].etag # NoEtag /\ c[url].json # None THEN c[url].etag ELSE NoEtag,
        !.attempts_remaining = ESI_ERROR_RETRY_COUNT ]

\* the while condition of the retry loop
LoopAgain(g) == g.result_data = None /\ g.attempts_remaining > 0

\* after an iteration that did not break: sleep when attempts remain, and go round the loop
Backoff(g, delay) ==
    IF g.attempts_remaining > 0
    THEN [ g EXCEPT !.pc = "sleep", !.sleep = delay ]
    ELSE [ g EXCEPT !.pc = "done" ]

\* (mutant) a connection error that sleeps the status-keyed delay of the last status
OnConnectionErrorKeyed(g) ==
    Backoff([ g EXCEPT !.attempts_remaining = @ - 1 ],
            ESI_ERROR_SLEEP_TIME * ESI_ERROR_SLEEP_MODIFIERS(INTERNAL_SERVER_ERROR))

\* except aiohttp.client_exceptions.ClientConnectionError (lines 127-132)
OnConnectionError(g) ==
    Backoff([ g EXCEPT !.attempts_remaining = @ - 1 ], ESI_ERROR_SLEEP_TIME)

\* the sleep after an error status (line 125)
ErrorSleep(status) == ESI_ERROR_SLEEP_TIME * ESI_ERROR_SLEEP_MODIFIERS(status)

\* the statuses that end get() at once (line 122)
GetTerminal == { BAD_REQUEST, FORBIDDEN }

\* lines 116-125: an error status.  The counter is decremented (line 119),
\* then the log line awaits response.text() (line 121) inside the try, and
\* only then is the terminal status tested (line 122).
OnErrorStatus(g, r, terminal) ==
    LET g1 == [ g EXCEPT !.attempts_remaining = @ - 1 ]
        g2 == IF r.status \in terminal THEN [ g1 EXCEPT !.attempts_remaining = 0 ] ELSE g1
    IN  CASE r.body = "connect_error" -> OnConnectionError(g1)
          [] r.body = "error" -> [ g1 EXCEPT !.pc = "done" ]
          [] OTHER -> Backoff(g2, ErrorSleep(r.status))

\* one iteration of the loop of get() (lines 86-137) on response r
GetOnResponse(g, r) ==
    CASE r.kind = "connect_error" -> OnConnectionError(g)
      [] r.kind = "error" -> [ g EXCEPT !.pc = "done" ]
      [] OTHER ->
            LET g1 == [ g EXCEPT !.result_status = r.status ] IN
            CASE r.status = OK ->
                    ( CASE r.body = "connect_error" -> OnConnectionError(g1)
                        [] r.body = "error" -> [ g1 EXCEPT !.pc = "done" ]
                        [] OTHER -> [ g1 EXCEPT !.result_data = r.json, !.pc = "done" ] )
              [] r.status = NOT_MODIFIED -> [ g1 EXCEPT !.result_data = g.previous_json, !.pc = "done" ]
              [] OTHER -> OnErrorStatus(g1, r, GetTerminal)

\* line 140: return AppESIResult(result_status, result_data); the locals of the call are gone
Returned(g) ==
    [ Idle EXCEPT !.op = g.op, !.pc = "returned", !.url = g.url, !.maxpageno = g.maxpageno,
                  !.result_status = g.result_status, !.result_data = g.result_data ]

\* lines 96-108: a 200 with an ETag and a body is stored under the url
GetCacheStore(c, url, r) ==
    IF r.kind = "response" /\ r.status = OK /\ r.body = "ok" /\ r.etag # NoEtag /\ r.json # None
    THEN [ c EXCEPT ![url] = [ @ EXCEPT !.etag = r.etag, !.json = r.json ] ]
    ELSE c

(***************************************************************************)
(* AppESI.post                                                             *)
(***************************************************************************)
\* post(), lines 145-149
PostBegin ==
    [ Idle EXCEPT !.op = "post", !.pc = "request", !.attempts_remaining = ESI_ERROR_RETRY_COUNT ]

\* the statuses that end post() at once (line 161)
PostTerminal == { BAD_REQUEST, FORBIDDEN, UNAUTHORIZED }

\* one iteration of the loop of post() (lines 150-176)
PostOnResponse(g, r) ==
    CASE r.kind = "connect_error" -> OnConnectionError(g)
      [] r.kind = "error" -> [ g EXCEPT !.pc = "done" ]
      [] OTHER ->
            LET g1 == [ g EXCEPT !.result_status = r.status ] IN
            CASE r.status = OK ->
                    ( CASE r.body = "connect_error" -> OnConnectionError(g1)
                        [] r.body = "error" -> [ g1 EXCEPT !.pc = "done" ]
                        [] OTHER -> [ g1 EXCEPT !.result_data = r.json, !.pc = "done" ] )
              [] OTHER -> OnErrorStatus(g1, r, PostTerminal)

(***************************************************************************)
(* AppESI.pages                                                            *)
(***************************************************************************)
\* pages(), lines 215-252: read the cache of the resource, set If-None-Match
PagesBegin(c) ==
    [ Idle EXCEPT !.op = "pages", !.pc = "request", !.url = 1,
        !.previous_json = c[1].json,
        !.previous_pages = c[1].pages,
        !.if_none_match = IF c[1].etag # NoEtag /\ c[1].json # None /\ c[1].pages > 0
                          THEN c[1].etag ELSE NoEtag,
        !.attempts_remaining = ESI_ERROR_RETRY_COUNT ]

\* the statuses that end the first-page loop at once (line 293)
PagesTerminal == { BAD_REQUEST, FORBIDDEN }

\* one iteration of the first-page loop of pages() (lines 253-309)
PagesOnResponse(g, r) ==
    CASE r.kind = "connect_error" -> OnConnectionError(g)
      [] r.kind = "error" -> [ g EXCEPT !.pc = "done" ]
      [] OTHER ->
            LET g1 == [ g EXCEPT !.result_status = r.status ] IN
            CASE r.status = OK ->
                    ( CASE r.body = "connect_error" -> OnConnectionError(g1)
                        [] r.body = "error" -> [ g1 EXCEPT !.pc = "done" ]
                        [] OTHER -> [ g1 EXCEPT !.maxpageno = r.pages, !.result_data = r.json,
                                                !.pc = "done" ] )
              [] r.status = NOT_MODIFIED ->
                    [ g1 EXCEPT !.maxpageno = g.previous_pages, !.result_data = g.previous_json,
                                !.pc = "done" ]
              [] OTHER -> OnErrorStatus(g1, r, PagesTerminal)

\* lines 263-276: a 200 with an ETag and a body stores json, pages and etag
PagesCacheStore(c, r) ==
    IF r.kind = "response" /\ r.status = OK /\ r.body = "ok" /\ r.etag # NoEtag /\ r.json # None
    THEN [ c EXCEPT ![1] = [ etag |-> r.etag, json |-> r.json, pages |-> r.pages ] ]
    ELSE c

\* Python truthiness of a result's data (line 319: "if result.data")
Truthy(data) == data # None /\ data # << >>

\* lines 316-324: the results of the gathered get() calls, taken in page order from page p
RECURSIVE GatherResults(_, _, _, _)
GatherResults(g, results, p, n) ==
    IF p > n THEN g
    ELSE IF results[p].result_status \in { OK, NOT_MODIFIED }
         THEN GatherResults(
                  IF Truthy(results[p].result_data)
                  THEN [ g EXCEPT !.result_data = @ \o results[p].result_data ]
                  ELSE g,
                  results, p + 1, n)
         ELSE [ g EXCEPT !.result_status = results[p].result_status, !.result_data = None ]

(***************************************************************************)
(* The client's operations as steps.  One operation runs at a time; an     *)
(* HTTP request with its response is one step, a backoff sleep another.    *)
(***************************************************************************)
NoRun == [ status |-> NoStatus, n |-> 0, sleeps |-> << >> ]

InitEsi ==
    /\ cache = [ u \in Urls |-> NoEntry ]
    /\ call = Idle
    /\ sub = << >>
    /\ nAttempts = 0
    /\ seen = NoStatus
    /\ run = NoRun
    /\ nSleeps = 0
    /\ nErrors = 0
    /\ connError = FALSE

Callable == call.pc \in { "idle", "returned" }

StartHistory ==
    /\ nAttempts' = 0
    /\ seen' = NoStatus
    /\ run' = NoRun
    /\ nSleeps' = 0
    /\ nErrors' = 0
    /\ connError' = FALSE

CallGet(url) ==
    /\ Callable
    /\ call' = GetBegin(url, cache)
    /\ sub' = << >>
    /\ StartHistory
    /\ UNCHANGED cache

CallPost ==
    /\ Callable
    /\ call' = PostBegin
    /\ sub' = << >>
    /\ StartHistory
    /\ UNCHANGED cache

CallPages ==
    /\ Callable
    /\ call' = PagesBegin(cache)
    /\ sub' = << >>
    /\ StartHistory
    /\ UNCHANGED cache

\* the run of consecutive error responses with one status
RunAfter(r) ==
    IF r.kind = "response" /\ r.status \in ErrorStatuses
    THEN IF run.status = r.status THEN [ run EXCEPT !.n = @ + 1 ]
         ELSE [ status |-> r.status, n |-> 1, sleeps |-> << >> ]
    ELSE NoRun

\* the main call issues one HTTP request and handles what comes back
Request(r) ==
    /\ call.pc = "request"
    /\ call' = CASE call.op = "get" -> GetOnResponse(call, r)
                 [] call.op = "post" -> PostOnResponse(call, r)
                 [] OTHER -> PagesOnResponse(call, r)
    /\ cache' = CASE call.op = "get" -> GetCacheStore(cache, call.url, r)
                  [] call.op = "post" -> cache
                  [] OTHER -> PagesCacheStore(cache, r)
    /\ nAttempts' = nAttempts + 1
    /\ seen' = IF r.kind = "response" THEN r.status ELSE seen
    /\ run' = RunAfter(r)
    /\ nErrors' = nErrors
                    + (IF r.kind = "response" /\ r.status \in ErrorStatuses THEN 1 ELSE 0)
                    + (IF "connect_error" \in { r.kind, r.body } THEN 1 ELSE 0)
    /\ connError' = ("connect_error" \in { r.kind, r.body })
    /\ UNCHANGED << sub, nSleeps >>

\* asyncio.sleep returns and the loop condition is evaluated again
Wake ==
    /\ call.pc = "sleep"
    /\ call' = [ call EXCEPT !.pc = IF LoopAgain(call) THEN "request" ELSE "done", !.sleep = 0 ]
    /\ nSleeps' = nSleeps + 1
    /\ run' = IF run.n > 0 THEN [ run EXCEPT !.sleeps = Append(@, call.sleep) ] ELSE run
    /\ UNCHANGED << cache, sub, nAttempts, seen, nErrors, connError >>

\* get() and post() return AppESIResult(result_status, result_data)
Return ==
    /\ call.op \in { "get", "post" }
    /\ call.pc = "done"
    /\ call' = Returned(call)
    /\ StartHistory
    /\ UNCHANGED << cache, sub >>

\* pages(), lines 311-315: with first-page data, a get() per page 2..maxpageno is gathered
PagesFanOut ==
    /\ call.op = "pages"
    /\ call.pc = "done"
    /\ IF call.result_data # None /\ call.maxpageno >= 2
       THEN /\ sub' = [ p \in 2 .. call.maxpageno |-> GetBegin(p, cache) ]
            /\ call' = [ Returned(call) EXCEPT !.pc = "gather" ]
       ELSE /\ sub' = << >>
            /\ call' = Returned(call)
    /\ StartHistory
    /\ UNCHANGED cache

\* a gathered get() that has issued a request and has not finished
InFlight(g) == g.pc = "sleep" \/ (g.pc = "request" /\ g.attempts_remaining < ESI_ERROR_RETRY_COUNT)

\* One of the gathered get() calls issues a request.  The gathered calls share
\* nothing but the upstream (each has its own url, cache keys and locals), so
\* their steps commute: they are taken one call at a time, in any order.
SubRequest(p, r) ==
    /\ call.pc = "gather"
    /\ sub[p].pc = "request"
    /\ \A q \in DOMAIN sub \ { p } : ~ InFlight(sub[q])
    /\ sub' = [ sub EXCEPT ![p] = LET g == GetOnResponse(@, r) IN
                                  IF g.pc = "done" THEN Returned(g) ELSE g ]
    /\ cache' = GetCacheStore(cache, p, r)
    /\ UNCHANGED << call, nAttempts, seen, run, nSleeps, nErrors, connError >>

SubWake(p) ==
    /\ call.pc = "gather"
    /\ sub[p].pc = "sleep"
    /\ sub' = [ sub EXCEPT ![p] = IF LoopAgain(@) THEN [ @ EXCEPT !.pc = "request", !.sleep = 0 ]
                                  ELSE Returned(@) ]
    /\ UNCHANGED << cache, call, nAttempts, seen, run, nSleeps, nErrors, connError >>

\* asyncio.gather returns: lines 316-327
PagesGather ==
    /\ call.pc = "gather"
    /\ \A p \in DOMAIN sub : sub[p].pc = "returned"
    /\ call' = [ GatherResults(call, sub, 2, call.maxpageno) EXCEPT !.pc = "returned" ]
    /\ UNCHANGED << cache, sub, nAttempts, seen, run, nSleeps, nErrors, connError >>

\* a cache entry reaches its lifetime (setex ... time=lifetime)
CacheExpire(url) ==
    /\ cache[url] # NoEntry
    /\ cache' = [ cache EXCEPT ![url] = NoEntry ]
    /\ UNCHANGED << call, sub, nAttempts, seen, run, nSleeps, nErrors, connError >>

(***************************************************************************)
(* The cache under a resource that changes and calls that overlap.  The    *)
(* upstream serves a resource in versions and names the version in the     *)
(* ETag.  get() reads json:{url} and etag:{url} with two awaits (lines 70    *)
(* and 77), so another call of get() for the same url (the tasks of         *)
(* src/main.py share one AppESI and one event loop) can store its 200       *)
(* between them.                                                            *)
(***************************************************************************)
MaxVersion == 2         \* versions of a resource (bound)

UpstreamVersions == 1 .. MaxVersion

\* the JSON array of page p in version v; version 1 is PageJson
VersionJson(p, v) == << p + (v - 1) * UpstreamPages >>

\* what one HTTP request can come back with when the resource has versions
VersionedResponses(url, if_none_match) ==
    Responses(url, if_none_match)
    \cup { [ kind |-> "response", status |-> OK, body |-> b, json |-> VersionJson(url, v),
             etag |-> IF named THEN v ELSE NoEtag, pages |-> UpstreamPages ] :
             b \in { "ok", "connect_error", "error" }, v \in UpstreamVersions, named \in BOOLEAN }

\* get(), lines 61-85, with the cache as the read of line 70 found it and as
\* the read of line 77 found it
GetBeginReads(url, at_json, at_etag) ==
    [ Idle EXCEPT !.op = "get", !.pc = "request", !.url = url,
        !.previous_json = at_json[url].json,
        !.if_none_match = IF at_etag[url].etag # NoEtag /\ at_json[url].json # None
                          THEN at_etag[url].etag ELSE NoEtag,
        !.attempts_remaining = ESI_ERROR_RETRY_COUNT ]

\* get() is called while another call of get() for the url has its 200
\* response r in hand: that call stores r after this one read the body and
\* before it reads the ETag
CallGetOverlapped(url, r) ==
    /\ Callable
    /\ GetCacheStore(cache, url, r) # cache
    /\ cache' = GetCacheStore(cache, url, r)
    /\ call' = GetBeginReads(url, cache, cache')
    /\ sub' = << >>
    /\ StartHistory

(***************************************************************************)
(* The history stores: AppCommonState and its three instances              *)
(* (src/tasks/app_tasks.py).  A history table is the sequence of its rows   *)
(* in insertion order; the id column comes from the table's sequence, so    *)
(* the row at position i has id i.  The timestamp column is never compared  *)
(* and is left out.  A dict is a function from its keys; a snapshot carries *)
(* every NOT NULL column of its table, the nullable column may be absent.   *)
(* A compared column stands for the columns of its kind: state for the      *)
(* nullable ones, last_updated / chunk_arrival_time for the others.         *)
(***************************************************************************)
MaxRows == 3            \* rows a history table holds (bound)
MaxId == 2              \* structure and observer ids (bound)
MaxCorporation == 2     \* corporation ids (bound)
MaxCharacter == 2       \* character ids (bound)
MaxField == 2           \* values of a compared column (bound)

\* Python None / SQL NULL where a column value is expected
Null == 0

Ids == 1 .. MaxId
Corporations == 1 .. MaxCorporation
Characters == 1 .. MaxCharacter
Fields == 1 .. MaxField

\* dict()
EmptyDict == [ k \in {} |-> Null ]
\* get() found no row: scalar_one_or_none() returns None
NoRow == EmptyDict

\* d.get(k)
DictGet(d, k) == IF k \in DOMAIN d THEN d[k] ELSE Null
\* d | {k: v}
DictOr(d, k, v) == [ x \in DOMAIN d \cup { k } |-> IF x = k THEN v ELSE d[x] ]

\* __table__.columns.keys() without id, exists, timestamp (db.py)
StructureColumns == { "character_id", "corporation_id", "structure_id", "state", "has_moon_drill" }
ExtractionColumns == { "character_id", "corporation_id", "structure_id", "moon_id",
                       "extraction_start_time", "chunk_arrival_time", "natural_decay_time" }
ObserverColumns == { "corporation_id", "observer_id", "last_updated" }

\* (mutant) the keys the older check_changes leaves out
OlderSkipkeys == { "character_id", "corporation_id" }

\* AppCommonState.changes_skipkeys and its override in AppObserverState
CommonSkipkeys == { "character_id" }
ObserverSkipkeys == {}

\* (mutant) changes() walking the keys of the new dict instead of the prior row's
ChangesOverNow(skipkeys, prior_exists, now_exists, prior_edict, now_edict) ==
    IF ~now_exists
    THEN IF prior_exists THEN DictOr(prior_edict, "exists", now_exists) ELSE EmptyDict
    ELSE IF DOMAIN now_edict # {}
         THEN IF \E k \in DOMAIN now_edict \ skipkeys :
                     k \notin DOMAIN prior_edict \/ prior_edict[k] # now_edict[k]
              THEN DictOr(now_edict, "exists", now_exists)
              ELSE EmptyDict
         ELSE EmptyDict

\* (mutant) changes() building a tombstone whatever the prior row's exists
ChangesOverTombstone(skipkeys, prior_exists, now_exists, prior_edict, now_edict) ==
    IF ~now_exists
    THEN DictOr(prior_edict, "exists", now_exists)
    ELSE IF DOMAIN now_edict # {}
         THEN IF \E k \in DOMAIN prior_edict \ skipkeys : prior_edict[k] # DictGet(now_edict, k)
              THEN DictOr(now_edict, "exists", now_exists)
              ELSE EmptyDict
         ELSE EmptyDict

\* AppCommonState.changes
Changes(skipkeys, prior_exists, now_exists, prior_edict, now_edict) ==
    IF ~now_exists
    THEN IF prior_exists THEN DictOr(prior_edict, "exists", now_exists) ELSE EmptyDict
    ELSE IF DOMAIN now_edict # {}
         THEN IF \E k \in DOMAIN prior_edict \ skipkeys : prior_edict[k] # DictGet(now_edict, k)
              THEN DictOr(now_edict, "exists", now_exists)
              ELSE EmptyDict
         ELSE EmptyDict

\* the latest of the rows at the positions idx: order_by(desc(id)).limit(1)
LatestRow(rows, idx) ==
    IF idx = {} THEN NoRow ELSE rows[CHOOSE i \in idx : \A j \in idx : j <= i]

\* {x: getattr(obj, x) for x in columns if x not in ['id', 'exists', 'timestamp']}
PriorEdict(obj, columns) == [ k \in columns |-> obj[k] ]

\* Table(**edict) inserted: the sequence gives the id, a missing column is NULL
NewRow(rows, columns, edict) ==
    [ k \in columns \cup { "id", "exists" } |-> IF k = "id" THEN Len(rows) + 1 ELSE DictGet(edict, k) ]

\* (mutant) set() writing a change over the row get() found instead of
\* adding a row
HistorySetInPlace(rows, columns, skipkeys, obj, now_edict, now_exists, force_set) ==
    LET change_edict == IF obj # NoRow
                        THEN Changes(skipkeys, obj.exists, now_exists, PriorEdict(obj, columns), now_edict)
                        ELSE EmptyDict
        want_set == IF obj # NoRow THEN change_edict # EmptyDict
                    ELSE DOMAIN now_edict # {} /\ now_exists
        rebound == obj # NoRow /\ want_set
        written == DictOr(IF rebound THEN change_edict ELSE now_edict, "exists", now_exists)
    IN  IF want_set \/ force_set
        THEN [ rows |-> IF obj # NoRow
                        THEN [ rows EXCEPT ![obj.id] = [ NewRow(rows, columns, written) EXCEPT !.id = obj.id ] ]
                        ELSE Append(rows, NewRow(rows, columns, written)),
               changed |-> TRUE,
               edict |-> IF rebound THEN now_edict ELSE written ]
        ELSE [ rows |-> rows, changed |-> FALSE, edict |-> now_edict ]

\* The body of the three set() methods, given the row get() found.
\* Result: the table, the value returned, and the caller's dict after the
\* call (now_edict |= {...} updates the caller's dict in place unless
\* now_edict was rebound to the dict changes() built).
HistorySet(rows, columns, skipkeys, obj, now_edict, now_exists, force_set) ==
    LET change_edict == IF obj # NoRow
                        THEN Changes(skipkeys, obj.exists, now_exists, PriorEdict(obj, columns), now_edict)
                        ELSE EmptyDict
        want_set == IF obj # NoRow THEN change_edict # EmptyDict
                    ELSE DOMAIN now_edict # {} /\ now_exists
        rebound == obj # NoRow /\ want_set
        written == DictOr(IF rebound THEN change_edict ELSE now_edict, "exists", now_exists)
    IN  IF want_set \/ force_set
        THEN [ rows |-> Append(rows, NewRow(rows, columns, written)), changed |-> TRUE,
               edict |-> IF rebound THEN now_edict ELSE written ]
        ELSE [ rows |-> rows, changed |-> FALSE, edict |-> now_edict ]

\* AppStructureState.get
StructureState_get(rows, structure_id) ==
    LatestRow(rows, { i \in 1 .. Len(rows) : rows[i].structure_id = structure_id })

\* AppStructureState.set
StructureState_set(rows, structure_id, now_edict, now_exists, force_set) ==
    HistorySet(rows, StructureColumns, CommonSkipkeys, StructureState_get(rows, structure_id),
               now_edict, now_exists, force_set)

\* AppStructureState.structure_ids
StructureState_structure_ids(rows, corporation_id) ==
    { rows[i].structure_id : i \in { j \in 1 .. Len(rows) :
        /\ rows[j].corporation_id = corporation_id
        /\ rows[j].exists
        /\ rows[j].structure_id \notin { rows[t].structure_id : t \in { u \in 1 .. Len(rows) : ~rows[u].exists } } } }

\* AppExtractionState.get
ExtractionState_get(rows, structure_id) ==
    LatestRow(rows, { i \in 1 .. Len(rows) : rows[i].structure_id = structure_id })

\* AppExtractionState.set
ExtractionState_set(rows, structure_id, now_edict, now_exists, force_set) ==
    HistorySet(rows, ExtractionColumns, CommonSkipkeys, ExtractionState_get(rows, structure_id),
               now_edict, now_exists, force_set)

\* (mutant) add() that writes only over a row that differs
ExtractionState_addOverPrior(rows, structure_id, now_edict, now_exists) ==
    LET obj == ExtractionState_get(rows, structure_id)
        want_add == /\ DOMAIN now_edict # {} /\ now_exists
                    /\ obj # NoRow
                    /\ Changes(CommonSkipkeys, obj.exists, now_exists,
                               PriorEdict(obj, ExtractionColumns), now_edict) # EmptyDict
        written == DictOr(now_edict, "exists", now_exists)
    IN  IF want_add
        THEN [ rows |-> Append(rows, NewRow(rows, ExtractionColumns, written)), changed |-> TRUE,
               edict |-> written ]
        ELSE [ rows |-> rows, changed |-> FALSE, edict |-> now_edict ]

\* AppExtractionState.add
ExtractionState_add(rows, structure_id, now_edict, now_exists) ==
    LET obj == ExtractionState_get(rows, structure_id)
        want0 == DOMAIN now_edict # {} /\ now_exists
        want_add == IF want0 /\ obj # NoRow
                    THEN Changes(CommonSkipkeys, obj.exists, now_exists,
                                 PriorEdict(obj, ExtractionColumns), now_edict) # EmptyDict
                    ELSE want0
        written == DictOr(now_edict, "exists", now_exists)
    IN  IF want_add
        THEN [ rows |-> Append(rows, NewRow(rows, ExtractionColumns, written)), changed |-> TRUE,
               edict |-> written ]
        ELSE [ rows |-> rows, changed |-> FALSE, edict |-> now_edict ]

\* AppObserverState.get
ObserverState_get(rows, observer_id, corporation_id) ==
    LatestRow(rows, { i \in 1 .. Len(rows) :
        rows[i].observer_id = observer_id /\ rows[i].corporation_id = corporation_id })

\* AppObserverState.set
ObserverState_set(rows, observer_id, corporation_id, now_edict, now_exists, force_set) ==
    HistorySet(rows, ObserverColumns, ObserverSkipkeys, ObserverState_get(rows, observer_id, corporation_id),
               now_edict, now_exists, force_set)

\* AppObserverState.observer_ids: the subquery takes max(id) per observer over
\* the rows of the corporation with exists = true; the join returns the
\* observer of each such row
ObserverState_observer_ids(rows, corporation_id) ==
    LET live == { i \in 1 .. Len(rows) : rows[i].corporation_id = corporation_id /\ rows[i].exists }
        max_id == { i \in live : \A j \in live : rows[j].observer_id = rows[i].observer_id => j <= i }
    IN  { rows[i].observer_id : i \in max_id }

(***************************************************************************)
(* Time.  The clock counts ticks; a second has TicksPerSecond of them, so   *)
(* that the clock can carry a fraction of a second (the microsecond field   *)
(* of a datetime).                                                          *)
(***************************************************************************)
TicksPerSecond == 2     \* clock resolution (bound)
Hour == 3600 * TicksPerSecond
Day == 24 * Hour

(***************************************************************************)
(* The snapshots the passes build from upstream records, one dict per      *)
(* record.                                                                 *)
(***************************************************************************)
\* run_structures, lines 421-445; has_moon_drill: the drill service is online
StructureSnapshots(corporations) ==
    LET full == { [ character_id |-> ch, corporation_id |-> co, structure_id |-> id,
                    state |-> st, has_moon_drill |-> (id = 1) ] :
                    ch \in Characters, co \in corporations, id \in Ids, st \in Fields }
    IN  full \cup { [ k \in DOMAIN x \ { "state" } |-> x[k] ] : x \in full }

\* run_extractions, lines 701-712; extraction f of a structure arrives at hour
\* f and decays naturally two hours later
ExtractionSnapshots(corporations) ==
    { [ character_id |-> ch, corporation_id |-> co, structure_id |-> id, moon_id |-> id,
        extraction_start_time |-> (f - 1) * Hour, chunk_arrival_time |-> f * Hour,
        natural_decay_time |-> (f + 2) * Hour ] :
        ch \in Characters, co \in corporations, id \in Ids, f \in Fields }

\* run_observers, lines 846-856
ObserverSnapshots(corporations) ==
    { [ corporation_id |-> co, observer_id |-> id, last_updated |-> f ] :
        co \in corporations, id \in Ids, f \in Fields }

(***************************************************************************)
(* Calls of the store methods, one call per step, with the history of the  *)
(* last call.  The three stores share no table, so a behaviour exercises    *)
(* one of them.                                                            *)
(***************************************************************************)
NoFirst == [ changed |-> FALSE, before |-> 0, after |-> 0 ]

NoCall == [ store |-> "none", op |-> "none", key |-> << >>, edict_in |-> EmptyDict,
            edict_out |-> EmptyDict, exists |-> FALSE, force |-> FALSE, changed |-> FALSE,
            before |-> 0, after |-> 0, repeat |-> FALSE, first |-> NoFirst, fault |-> "none" ]

\* the call just made; repeat: it passed the arguments of the call before it,
\* the same dict (as that call left it) or an equal one
Called(store, op, key, edict_in, exists, force, before, result, after) ==
    LET same == /\ lastCall.store = store /\ lastCall.op = op /\ lastCall.key = key
                /\ lastCall.exists = exists /\ lastCall.force = force
                /\ edict_in \in { lastCall.edict_in, lastCall.edict_out }
    IN  [ store |-> store, op |-> op, key |-> key, edict_in |-> edict_in,
          edict_out |-> result.edict, exists |-> exists, force |-> force,
          changed |-> result.changed, before |-> before, after |-> after, repeat |-> same,
          first |-> IF same THEN [ changed |-> lastCall.changed, before |-> lastCall.before,
                                   after |-> lastCall.after ]
                    ELSE NoFirst,
          fault |-> "none" ]

\* the arguments a caller passes for an entity: a snapshot that exists (set
\* may be forced), a snapshot or an empty dict that does not, or the dict of
\* the call before
Arguments(snapshots, store) ==
    { << S, TRUE, f >> : S \in snapshots, f \in BOOLEAN }
    \cup { << S, FALSE, FALSE >> : S \in snapshots \cup { EmptyDict } }
    \cup { << EmptyDict, TRUE, FALSE >> }
    \cup IF lastCall.store = store /\ lastCall.edict_out # EmptyDict
         THEN { << lastCall.edict_out, lastCall.exists, lastCall.force >> }
         ELSE {}

RowsOfStructure(rows, structure_id) ==
    Cardinality({ i \in 1 .. Len(rows) : rows[i].structure_id = structure_id })

RowsOfObserver(rows, observer_id, corporation_id) ==
    Cardinality({ i \in 1 .. Len(rows) :
        rows[i].observer_id = observer_id /\ rows[i].corporation_id = corporation_id })

CallStructureSet(structure_id, now_edict, now_exists, force_set) ==
    /\ Len(structure_history) < MaxRows
    /\ extraction_history = << >> /\ observer_history = << >>
    /\ LET r == StructureState_set(structure_history, structure_id, now_edict, now_exists, force_set)
       IN  /\ structure_history' = r.rows
           /\ lastCall' = Called("structure", "set", << structure_id >>, now_edict, now_exists, force_set,
                                 RowsOfStructure(structure_history, structure_id), r,
                                 RowsOfStructure(r.rows, structure_id))
    /\ UNCHANGED << esiVars, overlapVars, extraction_history, observer_history, structure, scheduled, completed, modifiers,
                    refresh, taskVars, rolled, tick >>

CallExtractionSet(structure_id, now_edict, now_exists, force_set) ==
    /\ Len(extraction_history) < MaxRows
    /\ structure_history = << >> /\ observer_history = << >>
    /\ LET r == ExtractionState_set(extraction_history, structure_id, now_edict, now_exists, force_set)
       IN  /\ extraction_history' = r.rows
           /\ lastCall' = Called("extraction", "set", << structure_id >>, now_edict, now_exists, force_set,
                                 RowsOfStructure(extraction_history, structure_id), r,
                                 RowsOfStructure(r.rows, structure_id))
    /\ UNCHANGED << esiVars, overlapVars, structure_history, observer_history, structure, scheduled, completed, modifiers,
                    refresh, taskVars, rolled, tick >>

CallExtractionAdd(structure_id, now_edict, now_exists) ==
    /\ Len(extraction_history) < MaxRows
    /\ structure_history = << >> /\ observer_history = << >>
    /\ LET r == ExtractionState_add(extraction_history, structure_id, now_edict, now_exists)
       IN  /\ extraction_history' = r.rows
           /\ lastCall' = Called("extraction", "add", << structure_id >>, now_edict, now_exists, FALSE,
                                 RowsOfStructure(extraction_history, structure_id), r,
                                 RowsOfStructure(r.rows, structure_id))
    /\ UNCHANGED << esiVars, overlapVars, structure_history, observer_history, structure, scheduled, completed, modifiers,
                    refresh, taskVars, rolled, tick >>

CallObserverSet(observer_id, corporation_id, now_edict, now_exists, force_set) ==
    /\ Len(observer_history) < MaxRows
    /\ structure_history = << >> /\ extraction_history = << >>
    /\ LET r == ObserverState_set(observer_history, observer_id, corporation_id, now_edict, now_exists,
                                  force_set)
       IN  /\ observer_history' = r.rows
           /\ lastCall' = Called("observer", "set", << observer_id, corporation_id >>, now_edict,
                                 now_exists, force_set,
                                 RowsOfObserver(observer_history, observer_id, corporation_id), r,
                                 RowsOfObserver(r.rows, observer_id, corporation_id))
    /\ UNCHANGED << esiVars, overlapVars, structure_history, extraction_history, structure, scheduled, completed, modifiers,
                    refresh, taskVars, rolled, tick >>

\* what the database fails in a store call: the select of get(), or the
\* insert of the row
StoreFaults == { "read", "insert" }

\* set() or add() after the insert raised: the except clause returns False and
\* no row is added (the caller's dict has been updated before the insert)
InsertFailed(rows, r) == [ rows |-> rows, changed |-> FALSE, edict |-> r.edict ]

\* AppStructureState.set while the database fails.  get() catches the
\* exception of its select and returns None (lines 103-107), which set()
\* takes for a structure without a row; an exception of the insert is caught
\* in set() (lines 132-136)
StructureState_set_failing(rows, structure_id, now_edict, now_exists, force_set, fault) ==
    LET obj == IF fault = "read" THEN NoRow ELSE StructureState_get(rows, structure_id)
        r == HistorySet(rows, StructureColumns, CommonSkipkeys, obj, now_edict, now_exists, force_set)
    IN  IF fault = "insert" /\ r.changed THEN InsertFailed(rows, r) ELSE r

\* AppExtractionState.add while the database fails, likewise
ExtractionState_add_failing(rows, structure_id, now_edict, now_exists, fault) ==
    LET obj == IF fault = "read" THEN NoRow ELSE ExtractionState_get(rows, structure_id)
        want0 == DOMAIN now_edict # {} /\ now_exists
        want_add == IF want0 /\ obj # NoRow
                    THEN Changes(CommonSkipkeys, obj.exists, now_exists,
                                 PriorEdict(obj, ExtractionColumns), now_edict) # EmptyDict
                    ELSE want0
        written == DictOr(now_edict, "exists", now_exists)
        r == IF want_add
             THEN [ rows |-> Append(rows, NewRow(rows, ExtractionColumns, written)), changed |-> TRUE,
                    edict |-> written ]
             ELSE [ rows |-> rows, changed |-> FALSE, edict |-> now_edict ]
    IN  IF fault = "insert" /\ r.changed THEN InsertFailed(rows, r) ELSE r

\* a call of AppStructureState.set in which a statement raises: the select
\* of get(), or the insert when the call comes to it
CallStructureSetFailing(structure_id, now_edict, now_exists, force_set, fault) ==
    /\ Len(structure_history) < MaxRows
    /\ extraction_history = << >> /\ observer_history = << >>
    /\ LET r == StructureState_set_failing(structure_history, structure_id, now_edict, now_exists,
                                           force_set, fault)
       IN  /\ fault = "insert" =>
                StructureState_set(structure_history, structure_id, now_edict, now_exists,
                                   force_set).changed
           /\ structure_history' = r.rows
           /\ lastCall' = [ Called("structure", "set", << structure_id >>, now_edict, now_exists,
                                   force_set, RowsOfStructure(structure_history, structure_id), r,
                                   RowsOfStructure(r.rows, structure_id))
                                EXCEPT !.fault = fault ]
    /\ UNCHANGED << esiVars, overlapVars, extraction_history, observer_history, structure, scheduled, completed, modifiers,
                    refresh, taskVars, rolled, tick >>

\* a call of AppExtractionState.add in which a statement raises: the select
\* of get() when the call reads the latest row, or the insert when the call
\* comes to it
CallExtractionAddFailing(structure_id, now_edict, now_exists, fault) ==
    /\ Len(extraction_history) < MaxRows
    /\ structure_history = << >> /\ observer_history = << >>
    /\ LET r == ExtractionState_add_failing(extraction_history, structure_id, now_edict, now_exists,
                                            fault)
       IN  /\ fault = "read" => DOMAIN now_edict # {} /\ now_exists
           /\ fault = "insert" =>
                ExtractionState_add(extraction_history, structure_id, now_edict, now_exists).changed
           /\ extraction_history' = r.rows
           /\ lastCall' = [ Called("extraction", "add", << structure_id >>, now_edict, now_exists,
                                   FALSE, RowsOfStructure(extraction_history, structure_id), r,
                                   RowsOfStructure(r.rows, structure_id))
                                EXCEPT !.fault = fault ]
    /\ UNCHANGED << esiVars, overlapVars, structure_history, observer_history, structure, scheduled, completed, modifiers,
                    refresh, taskVars, rolled, tick >>

\* the dicts a caller passes for the entity with this id
ForId(arguments, column, id) ==
    { a \in arguments : a[1] = EmptyDict \/ a[1][column] = id }

(***************************************************************************)
(* AppStructureTask: roll_extractions and the three passes                 *)
(* (src/tasks/app_tasks.py).  A pass works on the tables it is given and    *)
(* yields the tables it leaves, with the events it put on the outbound     *)
(* queue.  The upstream listing a pass fetched is a function from the ids   *)
(* to the value of the compared column, Null for an id it does not list.   *)
(* The tables of the names the rows refer to (corporations, moons, types)  *)
(* are filled by the backfill calls before every write and are left out,   *)
(* as are the query logs and the mining ledger of an observer.             *)
(***************************************************************************)
MaxHours == 4           \* hours the clock runs (bound)
ModifierUnit == 2       \* a belt_lifetime_modifier m stands for m / ModifierUnit (bound)

\* the tables a pass reads and writes, and an empty outbound queue
Tables ==
    [ structure_history |-> structure_history, extraction_history |-> extraction_history,
      observer_history |-> observer_history, structure |-> structure, scheduled |-> scheduled,
      completed |-> completed, outbound |-> << >> ]

\* AppESIResult of pages(): 304, a failure, a 200 without data, or a 200 with a
\* listing of some of the ids, each with one of the values
EsiResults(ids, values) ==
    { [ status |-> NOT_MODIFIED, data |-> None ],
      [ status |-> INTERNAL_SERVER_ERROR, data |-> None ],
      [ status |-> OK, data |-> None ] }
    \cup { [ status |-> OK, data |-> l ] :
                l \in { x \in [ Ids -> { Null } \cup values ] : \A id \in Ids \ ids : x[id] = Null } }

\* src/app/events.py
StructureStateChangedEvent(structure_id, corporation_id, exists, state) ==
    [ event |-> "StructureStateChanged", structure_id |-> structure_id,
      corporation_id |-> corporation_id, exists |-> exists, state |-> state ]

MoonExtractionScheduledEvent(obj) ==
    [ event |-> "MoonExtractionScheduled", structure_id |-> obj.structure_id,
      corporation_id |-> obj.corporation_id, moon_id |-> obj.moon_id,
      extraction_start_time |-> obj.extraction_start_time,
      chunk_arrival_time |-> obj.chunk_arrival_time ]

MoonExtractionCompletedEvent(obj) ==
    [ event |-> "MoonExtractionCompleted", structure_id |-> obj.structure_id,
      corporation_id |-> obj.corporation_id, moon_id |-> obj.moon_id,
      extraction_start_time |-> obj.extraction_start_time,
      chunk_arrival_time |-> obj.chunk_arrival_time, belt_decay_time |-> obj.belt_decay_time ]

\* now.replace(microsecond=0)
WholeSeconds(t) == t - (t % TicksPerSecond)

\* min(a, b)
Min(a, b) == IF b < a THEN b ELSE a

\* belt_lifetime_estimate: timedelta(days=2), times float(belt_lifetime_modifier)
\* when the structure has a row in app_structure_modifiers
BeltLifetimeEstimate(modifier) ==
    IF modifier = Null THEN 2 * Day ELSE (2 * Day * modifier) \div ModifierUnit

\* (mutant) the belt lifetime counted from the chunk's arrival
CompletedExtractionFromArrival(scheduled_obj, modifier, t) ==
    [ character_id |-> scheduled_obj.character_id,
      corporation_id |-> scheduled_obj.corporation_id,
      structure_id |-> scheduled_obj.structure_id,
      moon_id |-> scheduled_obj.moon_id,
      extraction_start_time |-> scheduled_obj.extraction_start_time,
      chunk_arrival_time |-> scheduled_obj.chunk_arrival_time,
      natural_decay_time |-> scheduled_obj.natural_decay_time,
      belt_decay_time |-> Min(t, scheduled_obj.chunk_arrival_time) + BeltLifetimeEstimate(modifier) ]

\* roll_extractions: new_completed_obj
CompletedExtraction(scheduled_obj, modifier, t) ==
    [ character_id |-> scheduled_obj.character_id,
      corporation_id |-> scheduled_obj.corporation_id,
      structure_id |-> scheduled_obj.structure_id,
      moon_id |-> scheduled_obj.moon_id,
      extraction_start_time |-> scheduled_obj.extraction_start_time,
      chunk_arrival_time |-> scheduled_obj.chunk_arrival_time,
      natural_decay_time |-> scheduled_obj.natural_decay_time,
      belt_decay_time |-> Min(WholeSeconds(t), scheduled_obj.natural_decay_time)
                            + BeltLifetimeEstimate(modifier) ]

\* (mutant) the roll of one structure that leaves the scheduled row in place
RollKeepingScheduled(db, mods, t, structure_id) ==
    LET scheduled_obj == db.scheduled[structure_id]
        previous_completed_obj == db.completed[structure_id]
        new_completed_obj == CompletedExtraction(scheduled_obj, mods[structure_id], t)
    IN  IF scheduled_obj = NoRow THEN db
        ELSE IF t < scheduled_obj.chunk_arrival_time
        THEN [ db EXCEPT !.scheduled[structure_id] = NoRow ]
        ELSE IF /\ previous_completed_obj # NoRow
                /\ previous_completed_obj.chunk_arrival_time = scheduled_obj.chunk_arrival_time
        THEN [ db EXCEPT !.scheduled[structure_id] = NoRow ]
        ELSE [ db EXCEPT !.completed[structure_id] = new_completed_obj,
                         !.outbound = Append(@, MoonExtractionCompletedEvent(new_completed_obj)) ]

\* (mutant) the roll of one structure that cancels an extraction whose chunk
\* arrives at now
RollCancellingAtArrival(db, mods, t, structure_id) ==
    LET scheduled_obj == db.scheduled[structure_id]
        previous_completed_obj == db.completed[structure_id]
        new_completed_obj == CompletedExtraction(scheduled_obj, mods[structure_id], t)
    IN  IF scheduled_obj = NoRow THEN db
        ELSE IF t <= scheduled_obj.chunk_arrival_time
        THEN [ db EXCEPT !.scheduled[structure_id] = NoRow ]
        ELSE IF /\ previous_completed_obj # NoRow
                /\ previous_completed_obj.chunk_arrival_time = scheduled_obj.chunk_arrival_time
        THEN [ db EXCEPT !.scheduled[structure_id] = NoRow ]
        ELSE [ db EXCEPT !.scheduled[structure_id] = NoRow,
                         !.completed[structure_id] = new_completed_obj,
                         !.outbound = Append(@, MoonExtractionCompletedEvent(new_completed_obj)) ]

\* (mutant) the roll of one structure that writes the completed row anew
\* when it already is that of the scheduled extraction
RollRecomputing(db, mods, t, structure_id) ==
    LET scheduled_obj == db.scheduled[structure_id]
        new_completed_obj == CompletedExtraction(scheduled_obj, mods[structure_id], t)
    IN  IF scheduled_obj = NoRow THEN db
        ELSE IF t < scheduled_obj.chunk_arrival_time
        THEN [ db EXCEPT !.scheduled[structure_id] = NoRow ]
        ELSE [ db EXCEPT !.scheduled[structure_id] = NoRow,
                         !.completed[structure_id] = new_completed_obj,
                         !.outbound = Append(@, MoonExtractionCompletedEvent(new_completed_obj)) ]

\* roll_extractions, what it does for one structure of changed_structure_id_set:
\* a scheduled extraction whose chunk has not arrived is cancelled; one whose
\* chunk has arrived is removed and, unless the completed row is that same
\* extraction, replaces the completed row
RollOne(db, mods, t, structure_id) ==
    LET scheduled_obj == db.scheduled[structure_id]
        previous_completed_obj == db.completed[structure_id]
        new_completed_obj == CompletedExtraction(scheduled_obj, mods[structure_id], t)
    IN  IF scheduled_obj = NoRow THEN db
        ELSE IF t < scheduled_obj.chunk_arrival_time
        THEN [ db EXCEPT !.scheduled[structure_id] = NoRow ]
        ELSE IF /\ previous_completed_obj # NoRow
                /\ previous_completed_obj.chunk_arrival_time = scheduled_obj.chunk_arrival_time
        THEN [ db EXCEPT !.scheduled[structure_id] = NoRow ]
        ELSE [ db EXCEPT !.scheduled[structure_id] = NoRow,
                         !.completed[structure_id] = new_completed_obj,
                         !.outbound = Append(@, MoonExtractionCompletedEvent(new_completed_obj)) ]

RECURSIVE RollUpTo(_, _, _, _, _)
\* the structures 1 .. n of changed_structure_id_set, in the order of their ids
RollUpTo(db, mods, t, changed_structure_id_set, n) ==
    IF n = 0 THEN db
    ELSE LET d == RollUpTo(db, mods, t, changed_structure_id_set, n - 1)
         IN  IF n \in changed_structure_id_set THEN RollOne(d, mods, t, n) ELSE d

\* AppStructureTask.roll_extractions (one transaction, committed at the end)
roll_extractions(db, mods, t, changed_structure_id_set) ==
    RollUpTo(db, mods, t, changed_structure_id_set, MaxId)

\* run_structures: the dict built from an upstream record
StructureEdict(character_id, corporation_id, structure_id, state) ==
    [ character_id |-> character_id, corporation_id |-> corporation_id,
      structure_id |-> structure_id, state |-> state, has_moon_drill |-> (structure_id = 1) ]

RECURSIVE StructuresListed(_, _, _, _, _)
\* run_structures, the loop over the listed structures (1 .. n)
StructuresListed(db, character_id, corporation_id, data, n) ==
    IF n = 0 THEN db
    ELSE LET d == StructuresListed(db, character_id, corporation_id, data, n - 1)
             edict == StructureEdict(character_id, corporation_id, n, data[n])
             r == StructureState_set(d.structure_history, n, edict, TRUE, FALSE)
         IN  IF data[n] = Null THEN d
             ELSE [ d EXCEPT !.structure_history = r.rows,
                             !.outbound = IF r.changed
                                          THEN Append(@, StructureStateChangedEvent(
                                                            n, corporation_id, TRUE, edict.state))
                                          ELSE @ ]

RECURSIVE StructuresDeleted(_, _, _, _)
\* run_structures, the loop over deleted_structure_id_set (its ids among 1 .. n)
StructuresDeleted(db, corporation_id, deleted_structure_id_set, n) ==
    IF n = 0 THEN db
    ELSE LET d == StructuresDeleted(db, corporation_id, deleted_structure_id_set, n - 1)
             obj == StructureState_get(d.structure_history, n)
             e == IF obj.has_moon_drill
                  THEN ExtractionState_set(d.extraction_history, n, EmptyDict, FALSE, FALSE).rows
                  ELSE d.extraction_history
             r == StructureState_set(d.structure_history, n, EmptyDict, FALSE, FALSE)
         IN  IF n \notin deleted_structure_id_set THEN d
             ELSE [ d EXCEPT !.extraction_history = e,
                             !.structure_history = r.rows,
                             !.outbound = IF r.changed
                                          THEN Append(@, StructureStateChangedEvent(
                                                            n, corporation_id, FALSE, obj.state))
                                          ELSE @ ]

\* run_structures: the delete statements for the corporation's rows of the
\* structures not listed
DeleteNotListed(table, corporation_id, current) ==
    [ id \in Ids |-> IF /\ table[id] # NoRow
                        /\ table[id].corporation_id = corporation_id
                        /\ id \notin current
                     THEN NoRow ELSE table[id] ]

\* run_structures: the transaction of the three delete statements.  A row of
\* app_scheduled_extraction or app_completed_extraction references its row of
\* app_structure (a foreign key without ON DELETE), so the delete of a
\* structure's row fails while an extraction row another corporation wrote
\* references it; the exception is caught and nothing is deleted
StructuresRemoved(db, corporation_id, current) ==
    LET c == DeleteNotListed(db.completed, corporation_id, current)
        s == DeleteNotListed(db.scheduled, corporation_id, current)
        st == DeleteNotListed(db.structure, corporation_id, current)
        referenced == { id \in Ids : st[id] = NoRow /\ (c[id] # NoRow \/ s[id] # NoRow) }
    IN  IF referenced # {} THEN db
        ELSE [ db EXCEPT !.completed = c, !.scheduled = s, !.structure = st ]

RECURSIVE StructuresUpsert(_, _, _, _, _, _)
\* run_structures, the update of app_structure with the listed structures
\* (1 .. n); existing: the rows the select found
StructuresUpsert(db, existing, character_id, corporation_id, data, n) ==
    IF n = 0 THEN db
    ELSE LET d == StructuresUpsert(db, existing, character_id, corporation_id, data, n - 1)
             obj == StructureEdict(character_id, corporation_id, n, data[n])
         IN  IF data[n] = Null THEN d
             ELSE IF existing[n] = NoRow
             THEN [ d EXCEPT !.structure[n] = obj ]
             ELSE [ d EXCEPT !.structure[n] =
                                [ obj EXCEPT !.character_id = existing[n].character_id ] ]

\* (mutant) run_structures without its early returns: a fetch without data
\* is taken for an empty listing
run_structures_unguarded(db, character_id, corporation_id, esi_result) ==
    LET data == IF esi_result.data = None THEN [ id \in Ids |-> Null ] ELSE esi_result.data
        previous_structure_id_set == StructureState_structure_ids(db.structure_history, corporation_id)
        current == { id \in Ids : data[id] # Null }
        d1 == StructuresListed(db, character_id, corporation_id, data, MaxId)
        d2 == StructuresDeleted(d1, corporation_id, previous_structure_id_set \ current, MaxId)
        d3 == StructuresRemoved(d2, corporation_id, current)
    IN  IF current = {} THEN d3
        ELSE StructuresUpsert(d3, d3.structure, character_id, corporation_id, data, MaxId)

\* AppStructureTask.run_structures
run_structures(db, character_id, corporation_id, esi_result) ==
    IF esi_result.status = NOT_MODIFIED THEN db
    ELSE IF esi_result.status \notin { OK, NOT_MODIFIED } \/ esi_result.data = None THEN db
    ELSE LET data == esi_result.data
             previous_structure_id_set == StructureState_structure_ids(db.structure_history, corporation_id)
             current == { id \in Ids : data[id] # Null }
             d1 == StructuresListed(db, character_id, corporation_id, data, MaxId)
             d2 == StructuresDeleted(d1, corporation_id, previous_structure_id_set \ current, MaxId)
             d3 == StructuresRemoved(d2, corporation_id, current)
         IN  IF current = {} THEN d3
             ELSE StructuresUpsert(d3, d3.structure, character_id, corporation_id, data, MaxId)

\* AppExtractionState.structure_ids: the corporation's scheduled extractions
\* of structures without a tombstone in the structure history
ExtractionState_structure_ids(scheduled_rows, structure_rows, corporation_id) ==
    { id \in Ids :
        /\ scheduled_rows[id] # NoRow
        /\ scheduled_rows[id].corporation_id = corporation_id
        /\ id \notin { structure_rows[i].structure_id :
                            i \in { j \in 1 .. Len(structure_rows) : ~structure_rows[j].exists } } }

\* run_extractions: the dict built from an upstream record; extraction f of a
\* structure arrives at hour f and decays naturally two hours later
ExtractionEdict(character_id, corporation_id, structure_id, f) ==
    [ character_id |-> character_id, corporation_id |-> corporation_id,
      structure_id |-> structure_id, moon_id |-> structure_id,
      extraction_start_time |-> (f - 1) * Hour, chunk_arrival_time |-> f * Hour,
      natural_decay_time |-> (f + 2) * Hour ]

RECURSIVE ExtractionsListed(_, _, _, _, _)
\* run_extractions, the loop over the listed extractions (1 .. n): add() each
ExtractionsListed(db, character_id, corporation_id, data, n) ==
    IF n = 0 THEN db
    ELSE LET d == ExtractionsListed(db, character_id, corporation_id, data, n - 1)
             edict == ExtractionEdict(character_id, corporation_id, n, data[n])
         IN  IF data[n] = Null THEN d
             ELSE [ d EXCEPT !.extraction_history =
                                ExtractionState_add(@, n, edict, TRUE).rows ]

\* run_extractions: changed_structure_id_set, from the tables the pass found
ExtractionsChanged(db, t, character_id, corporation_id, data) ==
    LET previous_structure_id_set ==
            ExtractionState_structure_ids(db.scheduled, db.structure_history, corporation_id)
        current == { id \in Ids : data[id] # Null }
        edict(id) == ExtractionEdict(character_id, corporation_id, id, data[id])
    IN  { id \in current : ExtractionState_add(db.extraction_history, id, edict(id), TRUE).changed }
        \cup { id \in current : t > edict(id).natural_decay_time }
        \cup (previous_structure_id_set \ current)

\* run_extractions: the scheduled rows up to the roll
ExtractionsRolled(db, mods, t, character_id, corporation_id, data) ==
    LET changed_structure_id_set == ExtractionsChanged(db, t, character_id, corporation_id, data)
        d1 == ExtractionsListed(db, character_id, corporation_id, data, MaxId)
    IN  IF changed_structure_id_set # {}
        THEN roll_extractions(d1, mods, t, changed_structure_id_set)
        ELSE d1

\* run_extractions: the listed extractions whose insert into
\* app_scheduled_extraction violates the foreign key to app_structure; the
\* commit then fails, the exception is caught and the update is rolled back,
\* after the events of the rows added were put on the queue
ExtractionsOrphaned(db, data) ==
    { id \in Ids : data[id] # Null /\ db.scheduled[id] = NoRow /\ db.structure[id] = NoRow }

RECURSIVE ExtractionsUpsert(_, _, _, _, _, _)
\* run_extractions, the update of app_scheduled_extraction with the listed
\* extractions (1 .. n); existing: the rows the select found
ExtractionsUpsert(db, existing, character_id, corporation_id, data, n) ==
    IF n = 0 THEN db
    ELSE LET d == ExtractionsUpsert(db, existing, character_id, corporation_id, data, n - 1)
             obj == ExtractionEdict(character_id, corporation_id, n, data[n])
         IN  IF data[n] = Null THEN d
             ELSE IF existing[n] = NoRow
             THEN [ d EXCEPT !.scheduled[n] = obj,
                             !.outbound = Append(@, MoonExtractionScheduledEvent(obj)) ]
             ELSE [ d EXCEPT !.scheduled[n] =
                                [ obj EXCEPT !.character_id = existing[n].character_id ] ]

\* AppStructureTask.run_extractions
run_extractions(db, mods, t, character_id, corporation_id, esi_result) ==
    IF esi_result.status = NOT_MODIFIED THEN db
    ELSE IF esi_result.status \notin { OK, NOT_MODIFIED } \/ esi_result.data = None THEN db
    ELSE LET data == esi_result.data
             d2 == ExtractionsRolled(db, mods, t, character_id, corporation_id, data)
             d3 == ExtractionsUpsert(d2, d2.scheduled, character_id, corporation_id, data, MaxId)
         IN  IF { id \in Ids : data[id] # Null } = {} THEN d2
             ELSE IF ExtractionsOrphaned(d2, data) # {}
             THEN [ d2 EXCEPT !.outbound = d3.outbound ]
             ELSE d3

\* run_extractions when the commit of roll_extractions fails: the exception
\* is caught in roll_extractions (line 661), the deletes and inserts of the
\* transaction are rolled back, the events put on the queue in the loop stay,
\* and the pass goes on to its update of app_scheduled_extraction
run_extractions_roll_failed(db, mods, t, character_id, corporation_id, esi_result) ==
    IF esi_result.status = NOT_MODIFIED THEN db
    ELSE IF esi_result.status \notin { OK, NOT_MODIFIED } \/ esi_result.data = None THEN db
    ELSE LET data == esi_result.data
             changed_structure_id_set == ExtractionsChanged(db, t, character_id, corporation_id, data)
             d1 == ExtractionsListed(db, character_id, corporation_id, data, MaxId)
             d2 == IF changed_structure_id_set # {}
                   THEN [ d1 EXCEPT !.outbound =
                                        roll_extractions(d1, mods, t, changed_structure_id_set).outbound ]
                   ELSE d1
             d3 == ExtractionsUpsert(d2, d2.scheduled, character_id, corporation_id, data, MaxId)
         IN  IF { id \in Ids : data[id] # Null } = {} THEN d2
             ELSE IF ExtractionsOrphaned(d2, data) # {}
             THEN [ d2 EXCEPT !.outbound = d3.outbound ]
             ELSE d3

\* run_observers: the dict built from an upstream record
ObserverEdict(corporation_id, observer_id, last_updated) ==
    [ corporation_id |-> corporation_id, observer_id |-> observer_id, last_updated |-> last_updated ]

RECURSIVE ObserversListed(_, _, _, _)
\* run_observers, the loop over the listed observers (1 .. n): set() each, forced
ObserversListed(db, corporation_id, data, n) ==
    IF n = 0 THEN db
    ELSE LET d == ObserversListed(db, corporation_id, data, n - 1)
         IN  IF data[n] = Null THEN d
             ELSE [ d EXCEPT !.observer_history =
                                ObserverState_set(@, n, corporation_id,
                                                  ObserverEdict(corporation_id, n, data[n]),
                                                  TRUE, TRUE).rows ]

RECURSIVE ObserversRemoved(_, _, _, _)
\* run_observers, the loop over the removed observers (its ids among 1 .. n)
ObserversRemoved(db, corporation_id, removed, n) ==
    IF n = 0 THEN db
    ELSE LET d == ObserversRemoved(db, corporation_id, removed, n - 1)
         IN  IF n \notin removed THEN d
             ELSE [ d EXCEPT !.observer_history =
                                ObserverState_set(@, n, corporation_id, EmptyDict, FALSE, FALSE).rows ]

\* AppStructureTask.run_observers
run_observers(db, character_id, corporation_id, esi_result) ==
    IF esi_result.status = NOT_MODIFIED THEN db
    ELSE IF esi_result.status \notin { OK, NOT_MODIFIED } \/ esi_result.data = None THEN db
    ELSE LET data == esi_result.data
             previous_observer_id_set == ObserverState_observer_ids(db.observer_history, corporation_id)
             current_observer_id_set == { id \in Ids : data[id] # Null }
             d1 == ObserversListed(db, corporation_id, data, MaxId)
         IN  ObserversRemoved(d1, corporation_id, previous_observer_id_set \ current_observer_id_set, MaxId)

(***************************************************************************)
(* Exceptions that leave a pass.  The fetch itself returns a status and    *)
(* never raises (AppESI catches what its requests raise), and the store    *)
(* methods catch what the database raises and return None, False or an     *)
(* empty set.  What a pass does with the listing is not guarded: parsing a *)
(* record (dateutil.parser.parse, int) raises on a record that is not well *)
(* formed, and an attribute of the object a failed store read returned     *)
(* raises on None.                                                         *)
(***************************************************************************)
\* what goes wrong in a pass: nothing, the first listed record does not
\* parse, or the store read of the pass's second loop fails
PassFaults == { "none", "record", "get" }

\* how a pass ends: the tables it leaves, and whether an exception left it
Outcome(db, raised) == [ db |-> db, raised |-> raised ]

\* the pass got past its early returns
HasData(esi_result) == esi_result.status = OK /\ esi_result.data # None

\* a fetch that failed: pages() returns no data with the last status seen, or
\* with the 200 of the first page when a later page failed
FetchFailed(esi_result) == esi_result.status # NOT_MODIFIED /\ esi_result.data = None

\* run_structures with what can go wrong in it
run_structures_or_raise(db, character_id, corporation_id, esi_result, fault) ==
    LET data == esi_result.data
        previous_structure_id_set == StructureState_structure_ids(db.structure_history, corporation_id)
        current == { id \in Ids : data[id] # Null }
    IN  IF ~HasData(esi_result)
        THEN Outcome(run_structures(db, character_id, corporation_id, esi_result), FALSE)
        ELSE IF fault = "record" /\ current # {}
        THEN Outcome(db, TRUE)
        ELSE IF fault = "get" /\ previous_structure_id_set \ current # {}
        THEN Outcome(StructuresListed(db, character_id, corporation_id, data, MaxId), TRUE)
        ELSE Outcome(run_structures(db, character_id, corporation_id, esi_result), FALSE)

\* run_extractions with what can go wrong in it
run_extractions_or_raise(db, mods, t, character_id, corporation_id, esi_result, fault) ==
    LET data == esi_result.data
        current == { id \in Ids : data[id] # Null }
    IN  IF ~HasData(esi_result)
        THEN Outcome(run_extractions(db, mods, t, character_id, corporation_id, esi_result), FALSE)
        ELSE IF fault = "record" /\ current # {}
        THEN Outcome(db, TRUE)
        ELSE IF fault = "get" /\ ExtractionsChanged(db, t, character_id, corporation_id, data) # {}
        THEN Outcome(ExtractionsListed(db, character_id, corporation_id, data, MaxId), TRUE)
        ELSE Outcome(run_extractions(db, mods, t, character_id, corporation_id, esi_result), FALSE)

\* run_observers with what can go wrong in it
run_observers_or_raise(db, character_id, corporation_id, esi_result, fault) ==
    IF HasData(esi_result) /\ fault = "record" /\ { id \in Ids : esi_result.data[id] # Null } # {}
    THEN Outcome(db, TRUE)
    ELSE Outcome(run_observers(db, character_id, corporation_id, esi_result), FALSE)

(***************************************************************************)
(* The passes as steps.  AppStructureTask.run (lines 947-968) runs, for a   *)
(* session, the passes its roles and scopes allow, so each pass is a step   *)
(* of its own, at the clock's time.  The observers pass shares no table     *)
(* with the other two, so a behaviour exercises either side.                *)
(***************************************************************************)
\* no roll_extractions call in the step just taken
NoRoll ==
    [ ran |-> FALSE, t |-> 0, changed |-> {}, modifiers |-> << >>,
      scheduled_before |-> << >>, completed_before |-> << >>,
      scheduled_after |-> << >>, completed_after |-> << >>, events |-> << >> ]

\* belt_lifetime_modifier values an operator sets: 0.5 and 1.5
ModifierValues == { 1, 3 }
\* the structures whose modifier an operator sets
ModifiedIds == { 1 }

RunStructures(character_id, corporation_id, esi_result) ==
    LET d == run_structures(Tables, character_id, corporation_id, esi_result)
    IN  /\ observer_history = << >>
        /\ Len(d.structure_history) <= MaxRows /\ Len(d.extraction_history) <= MaxRows
        /\ structure_history' = d.structure_history
        /\ extraction_history' = d.extraction_history
        /\ structure' = d.structure
        /\ scheduled' = d.scheduled
        /\ completed' = d.completed
        /\ outbound' = d.outbound
        /\ rolled' = NoRoll
        /\ UNCHANGED << esiVars, overlapVars, observer_history, modifiers, refresh, now, task, lastCall, tick >>

RunExtractions(character_id, corporation_id, esi_result) ==
    LET d == run_extractions(Tables, modifiers, now, character_id, corporation_id, esi_result)
        listed == esi_result.status = OK /\ esi_result.data # None
        changed_structure_id_set ==
            IF listed
            THEN ExtractionsChanged(Tables, now, character_id, corporation_id, esi_result.data)
            ELSE {}
        r == ExtractionsRolled(Tables, modifiers, now, character_id, corporation_id, esi_result.data)
    IN  /\ observer_history = << >>
        /\ Len(d.extraction_history) <= MaxRows
        /\ extraction_history' = d.extraction_history
        /\ scheduled' = d.scheduled
        /\ completed' = d.completed
        /\ outbound' = d.outbound
        /\ rolled' = IF changed_structure_id_set = {} THEN NoRoll
                     ELSE [ ran |-> TRUE, t |-> now, changed |-> changed_structure_id_set,
                            modifiers |-> modifiers,
                            scheduled_before |-> scheduled, completed_before |-> completed,
                            scheduled_after |-> r.scheduled, completed_after |-> r.completed,
                            events |-> r.outbound ]
        /\ UNCHANGED << esiVars, overlapVars, structure, structure_history, observer_history, modifiers, refresh, now, task,
                        lastCall, tick >>

\* the extractions pass in which the commit of roll_extractions fails
RunExtractionsRollFailed(character_id, corporation_id, esi_result) ==
    LET d == run_extractions_roll_failed(Tables, modifiers, now, character_id, corporation_id,
                                         esi_result)
        changed_structure_id_set ==
            ExtractionsChanged(Tables, now, character_id, corporation_id, esi_result.data)
        r == ExtractionsRolled(Tables, modifiers, now, character_id, corporation_id, esi_result.data)
    IN  /\ HasData(esi_result)
        /\ changed_structure_id_set # {}
        /\ observer_history = << >>
        /\ Len(d.extraction_history) <= MaxRows
        /\ extraction_history' = d.extraction_history
        /\ scheduled' = d.scheduled
        /\ completed' = d.completed
        /\ outbound' = d.outbound
        /\ rolled' = [ ran |-> TRUE, t |-> now, changed |-> changed_structure_id_set,
                       modifiers |-> modifiers,
                       scheduled_before |-> scheduled, completed_before |-> completed,
                       scheduled_after |-> scheduled, completed_after |-> completed,
                       events |-> r.outbound ]
        /\ UNCHANGED << esiVars, overlapVars, structure, structure_history, observer_history, modifiers, refresh, now,
                        task, lastCall, tick >>

RunObservers(character_id, corporation_id, esi_result) ==
    LET d == run_observers(Tables, character_id, corporation_id, esi_result)
    IN  /\ structure_history = << >> /\ extraction_history = << >>
        /\ \A id \in Ids : scheduled[id] = NoRow /\ completed[id] = NoRow
        /\ Len(d.observer_history) <= MaxRows
        /\ observer_history' = d.observer_history
        /\ outbound' = d.outbound
        /\ rolled' = NoRoll
        /\ UNCHANGED << esiVars, overlapVars, structure_history, extraction_history, structure, scheduled, completed,
                        modifiers, refresh, now, task, lastCall, tick >>

\* time passes: two whole hours, a fraction of a second, then whole hours
ClockAdvance(d) ==
    /\ now + d <= MaxHours * Hour + 1
    /\ d = 1 <=> now = 2 * Hour
    /\ now' = now + d
    /\ rolled' = NoRoll
    /\ UNCHANGED << esiVars, overlapVars, dbVars, outbound, task, lastCall, tick >>

\* an operator writes a structure's row of app_structure_modifiers
SetModifier(structure_id, belt_lifetime_modifier) ==
    /\ modifiers[structure_id] # belt_lifetime_modifier
    /\ modifiers' = [ modifiers EXCEPT ![structure_id] = belt_lifetime_modifier ]
    /\ rolled' = NoRoll
    /\ UNCHANGED << esiVars, overlapVars, historyVars, structure, scheduled, completed, refresh, taskVars, lastCall,
                    tick >>

(***************************************************************************)
(* AppStructurePollingTask: run / run_once (src/tasks/app_tasks.py).  The   *)
(* table app_periodic_credentials is written by the login and token        *)
(* refresh flows, so every tick reads some table.  A tick is a step up to   *)
(* its sleep or its loop, each corporation of the loop a step, the sleep a  *)
(* step.                                                                   *)
(***************************************************************************)
CORPORATION_REFRESH_INTERVAL_SECONDS == 480
MaxIntervals == 1       \* refresh intervals, and one pass, after which no tick starts (bound)
PassSeconds == 240      \* seconds that pass while a tick polls (bound)

\* refresh_interval
RefreshInterval == CORPORATION_REFRESH_INTERVAL_SECONDS * TicksPerSecond
\* datetime.datetime(2000, 1, 1): before every time of the clock
Year2000 == -1000000
\* access_token_expiry: passed, or one of two times after the last tick
ExpiryValues == { 0, (MaxIntervals + 1) * RefreshInterval, (MaxIntervals + 1) * RefreshInterval + 1 }

\* rows of app_periodic_credentials that the query of
\* get_available_periodic_credentials selects: of a director, an accountant
\* or a plain station manager; character 1 is of corporation 1 and its
\* token expires first or together with another's
UsableCredentials ==
    { c \in [ character_id : Characters, corporation_id : Corporations, is_enabled : { TRUE },
              is_director_role : BOOLEAN, is_accountant_role : BOOLEAN,
              is_station_manager_role : { TRUE }, access_token_expiry : ExpiryValues \ { 0 } ] :
        /\ ~(c.is_director_role /\ c.is_accountant_role)
        /\ c.character_id = 1 =>
                /\ c.corporation_id = 1
                /\ c.access_token_expiry = (MaxIntervals + 1) * RefreshInterval }

\* rows it does not select: disabled, not a station manager, or expired
UnusableCredentials ==
    { [ character_id |-> ch, corporation_id |-> 1, is_enabled |-> f # 1, is_director_role |-> TRUE,
        is_accountant_role |-> TRUE, is_station_manager_role |-> f # 2,
        access_token_expiry |-> IF f = 3 THEN 0 ELSE (MaxIntervals + 1) * RefreshInterval ] :
        ch \in Characters, f \in 1 .. 3 }

\* the table: at most one row per character (the primary key)
CredentialTables ==
    { { f[ch] : ch \in Characters } \ { NoRow } :
        f \in { g \in [ Characters -> UsableCredentials \cup UnusableCredentials \cup { NoRow } ] :
                    \A ch \in Characters : g[ch] = NoRow \/ g[ch].character_id = ch } }

\* the where clause of get_available_periodic_credentials
Selected(table, t) ==
    { c \in table : c.is_enabled /\ c.is_station_manager_role /\ c.access_token_expiry > t }

\* (mutant) the query ordered by access_token_expiry alone
OrderedByExpiry(a, b) == a.access_token_expiry <= b.access_token_expiry

\* the order_by clause: a comes before b, or they tie
OrderedBefore(a, b) ==
    LET rank(c) == << IF c.is_director_role THEN 0 ELSE 1, IF c.is_accountant_role THEN 0 ELSE 1,
                      IF c.is_station_manager_role THEN 0 ELSE 1, c.access_token_expiry >>
        ra == rank(a)
        rb == rank(b)
    IN  \/ ra = rb
        \/ \E i \in 1 .. 4 : ra[i] < rb[i] /\ \A j \in 1 .. i - 1 : ra[j] = rb[j]

\* the sequences in which the query may return the rows: rows that tie come
\* in either order
QueryOrders(rows) ==
    { q \in [ 1 .. Cardinality(rows) -> rows ] :
        /\ \A i, j \in DOMAIN q : i # j => q[i] # q[j]
        /\ \A i, j \in DOMAIN q : i < j => OrderedBefore(q[i], q[j]) }

\* get_available_periodic_credentials: available_credentials_dict in insertion
\* order, the first row of each corporation
AvailableCredentials(q) ==
    SelectSeq(q, LAMBDA c : c = q[CHOOSE i \in DOMAIN q :
                                        /\ q[i].corporation_id = c.corporation_id
                                        /\ \A j \in DOMAIN q :
                                                q[j].corporation_id = c.corporation_id => i <= j])

\* get_refresh_times: the timestamp of the corporation's row, 2000-01-01
\* without one
RefreshTime(table, corporation_id) ==
    IF table[corporation_id] = NoRow THEN Year2000 ELSE table[corporation_id].timestamp

\* sorted(keys, key=timestamp)[0]: the first of the oldest, in dict order
Oldest(times) ==
    CHOOSE i \in DOMAIN times :
        /\ \A j \in DOMAIN times : times[i] <= times[j]
        /\ \A j \in DOMAIN times : times[j] = times[i] => i <= j

\* set_refresh_times: the row's timestamp is set to the tick's now; a first
\* row takes the column's server default, the time of the insert
set_refresh_times(table, corporation_id, character_id, timestamp, clock) ==
    [ table EXCEPT ![corporation_id] =
        [ timestamp |-> IF table[corporation_id] = NoRow THEN clock ELSE timestamp,
          character_id |-> character_id ] ]

\* (mutant) a sleep of the whole interval
RemainingIntervalWhole(oldest_corporation_timestamp, t) == RefreshInterval

\* run_once: remaining_interval
RemainingInterval(oldest_corporation_timestamp, t) ==
    (oldest_corporation_timestamp + RefreshInterval) - t

\* run(): about to call run_once
TaskSelect == [ pc |-> "select", now |-> 0, available |-> << >>, times |-> << >>,
                queue |-> << >>, sleep |-> 0 ]

\* before a tick polls a corporation
NoCycle == [ corporation_id |-> Null, permitted |-> << >>, ran |-> << >>, raised |-> FALSE,
             failed |-> FALSE ]

\* what the current tick has read and done: exceptions are the places where
\* an exception was raised in it, cycle the passes run for the corporation it
\* polled last, after_exception whether the tick before it had an exception
NewTick(t, available, times, exceptions, previous) ==
    [ ran |-> TRUE, now |-> t, available |-> available, times |-> times,
      sleeps |-> << >>, polled |-> << >>, fetches |-> 0, writes |-> 0, returned |-> FALSE,
      exceptions |-> exceptions, cycle |-> NoCycle, after_exception |-> previous # {} ]

NoTick == [ ran |-> FALSE, now |-> 0, available |-> << >>, times |-> << >>,
            sleeps |-> << >>, polled |-> << >>, fetches |-> 0, writes |-> 0, returned |-> FALSE,
            exceptions |-> {}, cycle |-> NoCycle, after_exception |-> FALSE ]

\* run_once up to its sleep or to the loop over the corporations.  streamed:
\* the rows the credentials query delivered before it raised (all of them when
\* it did not); read: the corporations whose refresh time was read before
\* that query raised (all of them when it did not).  Both methods catch the
\* exception and return what they have
RunOnceOrFail(table, q, streamed, read) ==
    /\ task.pc = "select"
    /\ now <= MaxIntervals * RefreshInterval + PassSeconds * TicksPerSecond
    /\ LET available == AvailableCredentials(SubSeq(q, 1, streamed))
           times == [ i \in DOMAIN available |->
                        IF available[i].corporation_id \in read
                        THEN RefreshTime(refresh, available[i].corporation_id)
                        ELSE Year2000 ]
           oldest_corporation_timestamp == times[Oldest(times)]
           exceptions == (IF streamed < Len(q) THEN { "get_available_periodic_credentials" } ELSE {})
                         \cup (IF \E i \in DOMAIN available : available[i].corporation_id \notin read
                               THEN { "get_refresh_times" } ELSE {})
       IN  /\ task' = IF Len(available) = 0
                      THEN [ TaskSelect EXCEPT !.pc = "sleep", !.now = now, !.sleep = RefreshInterval ]
                      ELSE IF oldest_corporation_timestamp + RefreshInterval > now
                      THEN [ pc |-> "sleep", now |-> now, available |-> available, times |-> times,
                             queue |-> << >>,
                             sleep |-> RemainingInterval(oldest_corporation_timestamp, now) ]
                      ELSE [ pc |-> "poll", now |-> now, available |-> available, times |-> times,
                             queue |-> [ i \in DOMAIN available |-> i ], sleep |-> 0 ]
           /\ tick' = NewTick(now, available, times, exceptions, tick.exceptions)
    /\ rolled' = NoRoll
    /\ outbound' = << >>
    /\ UNCHANGED << esiVars, overlapVars, dbVars, now, lastCall >>

\* run_once when neither query raises
RunOnce(table, q) == RunOnceOrFail(table, q, Len(q), Corporations)

\* the passes a credential's roles permit, in the order run_once runs them
Permitted(credentials) ==
    (IF credentials.is_director_role \/ credentials.is_station_manager_role
     THEN << "run_structures", "run_extractions" >> ELSE << >>)
    \o (IF credentials.is_director_role \/ credentials.is_accountant_role
        THEN << "run_observers" >> ELSE << >>)

\* no pass goes wrong
NoFaults == [ run_structures |-> "none", run_extractions |-> "none", run_observers |-> "none" ]

\* run_once, one corporation of the loop: skipped when not due, else its
\* passes by the credential's roles and then its refresh time.  An exception
\* that leaves a pass leaves the loop and run_once; recorded: the write of
\* set_refresh_times succeeded (it catches its exception when not)
PollNextOrRaise(structures, extractions, observers, faults, recorded) ==
    /\ task.pc = "poll" /\ task.queue # << >>
    /\ LET i == Head(task.queue)
           credentials == task.available[i]
           corporation_id == credentials.corporation_id
           character_id == credentials.character_id
           due == ~(task.times[i] + RefreshInterval > task.now)
           manager == credentials.is_director_role \/ credentials.is_station_manager_role
           accountant == credentials.is_director_role \/ credentials.is_accountant_role
       IN  \E o1 \in { IF manager
                       THEN run_structures_or_raise(Tables, character_id, corporation_id, structures,
                                                    faults.run_structures)
                       ELSE Outcome(Tables, FALSE) } :
           \E o2 \in { IF manager /\ ~o1.raised
                       THEN run_extractions_or_raise(o1.db, modifiers, task.now, character_id,
                                                     corporation_id, extractions, faults.run_extractions)
                       ELSE o1 } :
           \E o3 \in { IF accountant /\ ~o2.raised
                       THEN run_observers_or_raise(o2.db, character_id, corporation_id, observers,
                                                   faults.run_observers)
                       ELSE o2 } :
           \E d \in { IF due THEN o3.db ELSE Tables } :
             LET raised == due /\ o3.raised
                 ran == (IF manager THEN << "run_structures" >> ELSE << >>)
                        \o (IF manager /\ ~o1.raised THEN << "run_extractions" >> ELSE << >>)
                        \o (IF accountant /\ ~o2.raised THEN << "run_observers" >> ELSE << >>)
                 exception == IF ~raised THEN {} ELSE { ran[Len(ran)] }
                 failed == /\ ran # << >>
                           /\ \A k \in DOMAIN ran :
                                FetchFailed(CASE ran[k] = "run_structures" -> structures
                                              [] ran[k] = "run_extractions" -> extractions
                                              [] OTHER -> observers)
             IN  /\ Len(d.structure_history) <= MaxRows
                 /\ Len(d.extraction_history) <= MaxRows
                 /\ Len(d.observer_history) <= MaxRows
                 /\ structure_history' = d.structure_history
                 /\ extraction_history' = d.extraction_history
                 /\ observer_history' = d.observer_history
                 /\ structure' = d.structure
                 /\ scheduled' = d.scheduled
                 /\ completed' = d.completed
                 /\ outbound' = d.outbound
                 /\ refresh' = IF due /\ ~raised /\ recorded
                               THEN set_refresh_times(refresh, corporation_id, character_id,
                                                      task.now, now)
                               ELSE refresh
                 /\ task' = IF raised THEN [ task EXCEPT !.pc = "raised" ]
                            ELSE [ task EXCEPT !.queue = Tail(@) ]
                 /\ tick' = IF due
                            THEN [ tick EXCEPT
                                    !.polled = Append(@, corporation_id),
                                    !.fetches = @ + Len(ran),
                                    !.writes = @ + (IF ~raised /\ recorded THEN 1 ELSE 0),
                                    !.exceptions = @ \cup exception
                                                     \cup (IF ~raised /\ ~recorded
                                                           THEN { "set_refresh_times" } ELSE {}),
                                    !.cycle = [ corporation_id |-> corporation_id,
                                                permitted |-> Permitted(credentials),
                                                ran |-> ran, raised |-> raised,
                                                failed |-> failed ] ]
                            ELSE tick
    /\ rolled' = NoRoll
    /\ UNCHANGED << esiVars, overlapVars, modifiers, now, lastCall >>

\* the loop body when nothing in it raises
PollNext(structures, extractions, observers) ==
    PollNextOrRaise(structures, extractions, observers, NoFaults, TRUE)

\* (mutant) run() without its except clause: the exception ends the task
RunUncaught ==
    /\ task.pc = "raised"
    /\ task' = [ task EXCEPT !.pc = "ended" ]
    /\ tick' = [ tick EXCEPT !.returned = TRUE ]
    /\ rolled' = NoRoll
    /\ UNCHANGED << esiVars, overlapVars, dbVars, outbound, now, lastCall >>

\* run(): the exception that left run_once is caught and logged, and the loop
\* calls run_once again
RunCatch ==
    /\ task.pc = "raised"
    /\ task' = [ task EXCEPT !.pc = "select" ]
    /\ tick' = [ tick EXCEPT !.returned = TRUE ]
    /\ rolled' = NoRoll
    /\ UNCHANGED << esiVars, overlapVars, dbVars, outbound, now, lastCall >>

\* time passes while run_once is in its loop (once in a tick)
Elapse ==
    /\ task.pc = "poll" /\ now = task.now
    /\ now' = now + PassSeconds * TicksPerSecond
    /\ rolled' = NoRoll
    /\ UNCHANGED << esiVars, overlapVars, dbVars, outbound, task, lastCall, tick >>

\* the corporation the loop of run_once has come to
Polling ==
    IF task.pc = "poll" /\ task.queue # << >>
    THEN task.available[Head(task.queue)].corporation_id
    ELSE Null

\* run_once returns after the loop; run() calls it again
RunOnceReturn ==
    /\ task.pc = "poll" /\ task.queue = << >>
    /\ task' = [ task EXCEPT !.pc = "select" ]
    /\ tick' = [ tick EXCEPT !.returned = TRUE ]
    /\ rolled' = NoRoll
    /\ UNCHANGED << esiVars, overlapVars, dbVars, outbound, now, lastCall >>

\* asyncio.sleep ends, run_once returns; run() calls it again
TaskWake ==
    /\ task.pc = "sleep"
    /\ now' = now + task.sleep
    /\ task' = [ task EXCEPT !.pc = "select" ]
    /\ tick' = [ tick EXCEPT !.sleeps = Append(@, task.sleep), !.returned = TRUE ]
    /\ rolled' = NoRoll
    /\ UNCHANGED << esiVars, overlapVars, dbVars, outbound, lastCall >>

(***************************************************************************)
(* Executions of AppStructureTask.run for one corporation that overlap: a  *)
(* pass started for a request and the scheduler's pass.  Each fetches the   *)
(* corporation's extractions, then works on the tables in transactions of   *)
(* its own; the other pass runs while it awaits.  A pass is a step for its  *)
(* fetch, a step for the loop over the listing, and for each of its two     *)
(* transactions a step for the select and a step for the commit.  The       *)
(* database applies a commit's statements by primary key to the rows it     *)
(* holds then: a DELETE removes the row whoever wrote it, an INSERT of a    *)
(* key that has a row fails, an UPDATE that matches no row fails, and a     *)
(* failed commit is rolled back whole (the except clauses at lines 661 and  *)
(* 806 log it).                                                            *)
(***************************************************************************)
Passes == { "adhoc", "scheduler" }
MaxListings == 3        \* listings the upstream goes through (bound)

\* the rows a transaction's selects returned
NoRead == [ scheduled |-> [ id \in Ids |-> NoRow ], completed |-> [ id \in Ids |-> NoRow ] ]

NoPass == [ pc |-> "idle", version |-> 0, data |-> None, t |-> 0, changed |-> {}, read |-> NoRead,
            committed |-> [ id \in Ids |-> NoRow ] ]

\* the corporation schedules, reschedules or cancels the extraction of
\* structure 1
UpstreamChange(data) ==
    /\ upstream.version < MaxListings
    /\ data # upstream.data
    /\ upstream' = [ version |-> upstream.version + 1, data |-> data ]
    /\ UNCHANGED << esiVars, delivered, dbVars, taskVars, passes, callers, client_session, instances, lastCall,
                    rolled, tick >>

\* run captures now; run_extractions awaits pages(): a 304 ends the pass, a
\* 200 carries the listing of that moment
PassFetch(p, esi_result) ==
    /\ passes[p].pc = "idle"
    /\ passes' = [ passes EXCEPT ![p] =
                    [ @ EXCEPT !.pc = IF HasData(esi_result) THEN "fetched" ELSE "done",
                               !.version = IF HasData(esi_result) THEN upstream.version ELSE 0,
                               !.data = esi_result.data, !.t = now ] ]
    /\ UNCHANGED << esiVars, delivered, dbVars, taskVars, upstream, callers, client_session, instances, lastCall,
                    rolled, tick >>

\* run_extractions up to the roll: previous_structure_id_set, the loop of
\* add() over the listing, changed_structure_id_set
PassScan(p) ==
    LET q == passes[p]
        changed_structure_id_set == ExtractionsChanged(Tables, q.t, 1, 1, q.data)
        d1 == ExtractionsListed(Tables, 1, 1, q.data, MaxId)
    IN  /\ q.pc = "fetched"
        /\ Len(d1.extraction_history) <= MaxRows
        /\ extraction_history' = d1.extraction_history
        /\ outbound' = << >>
        /\ passes' = [ passes EXCEPT ![p] =
                        [ @ EXCEPT !.pc = IF changed_structure_id_set # {} THEN "roll"
                                          ELSE IF \E id \in Ids : q.data[id] # Null THEN "upsert"
                                          ELSE "done",
                                   !.changed = changed_structure_id_set ] ]
        /\ UNCHANGED << esiVars, delivered, structure, structure_history, observer_history, scheduled, completed,
                        modifiers, refresh, now, task, upstream, callers, client_session, instances,
                        lastCall, rolled, tick >>

\* roll_extractions: the selects of the scheduled and completed rows of
\* changed_structure_id_set
PassRollSelect(p) ==
    LET q == passes[p]
    IN  /\ q.pc = "roll"
        /\ passes' = [ passes EXCEPT ![p] =
                        [ @ EXCEPT !.pc = "roll_commit",
                                   !.read = [ scheduled |-> [ id \in Ids |-> IF id \in q.changed
                                                                             THEN scheduled[id] ELSE NoRow ],
                                              completed |-> [ id \in Ids |-> IF id \in q.changed
                                                                             THEN completed[id] ELSE NoRow ] ] ] ]
        /\ UNCHANGED << esiVars, delivered, dbVars, taskVars, upstream, callers, client_session, instances, lastCall,
                        rolled, tick >>

\* roll_extractions, what the transaction does given the rows it selected
RollOfRead(q, mods) ==
    roll_extractions([ Tables EXCEPT !.scheduled = q.read.scheduled, !.completed = q.read.completed ],
                     mods, q.t, q.changed)

\* roll_extractions: the commit.  The scheduled rows the transaction deleted
\* are removed by key; a completed row it wrote replaces the one it deleted,
\* and is an INSERT that fails where it had found none and there is one now
PassRollCommit(p) ==
    LET q == passes[p]
        r == RollOfRead(q, modifiers)
        removed == { id \in Ids : q.read.scheduled[id] # NoRow }
        written == { id \in Ids : r.completed[id] # q.read.completed[id] }
        failed == \E id \in written : q.read.completed[id] = NoRow /\ completed[id] # NoRow
    IN  /\ q.pc = "roll_commit"
        /\ scheduled' = IF failed THEN scheduled
                        ELSE [ id \in Ids |-> IF id \in removed THEN NoRow ELSE scheduled[id] ]
        /\ completed' = IF failed THEN completed
                        ELSE [ id \in Ids |-> IF id \in written THEN r.completed[id] ELSE completed[id] ]
        /\ outbound' = r.outbound
        /\ passes' = [ passes EXCEPT ![p] =
                        [ @ EXCEPT !.pc = IF \E id \in Ids : q.data[id] # Null THEN "upsert" ELSE "done",
                                   !.read = NoRead ] ]
        /\ UNCHANGED << esiVars, delivered, historyVars, structure, modifiers, refresh, now, task, upstream, callers,
                        client_session, instances, lastCall, rolled, tick >>

\* run_extractions, the update of app_scheduled_extraction: the select of the
\* rows of the listed structures
PassUpsertSelect(p) ==
    LET q == passes[p]
    IN  /\ q.pc = "upsert"
        /\ passes' = [ passes EXCEPT ![p] =
                        [ @ EXCEPT !.pc = "upsert_commit",
                                   !.read = [ NoRead EXCEPT !.scheduled =
                                                [ id \in Ids |-> IF q.data[id] # Null
                                                                 THEN scheduled[id] ELSE NoRow ] ] ] ]
        /\ UNCHANGED << esiVars, delivered, dbVars, taskVars, upstream, callers, client_session, instances, lastCall,
                        rolled, tick >>

\* run_extractions, the update of app_scheduled_extraction: the commit.  A
\* listed extraction without a row in the select is an INSERT, one that
\* differs from its row an UPDATE of that row
PassUpsertCommit(p) ==
    LET q == passes[p]
        r == ExtractionsUpsert([ Tables EXCEPT !.scheduled = q.read.scheduled ], q.read.scheduled,
                               1, 1, q.data, MaxId)
        inserted == { id \in Ids : q.data[id] # Null /\ q.read.scheduled[id] = NoRow }
        updated == { id \in Ids : /\ q.data[id] # Null /\ q.read.scheduled[id] # NoRow
                                  /\ r.scheduled[id] # q.read.scheduled[id] }
        failed == \/ \E id \in inserted : scheduled[id] # NoRow \/ structure[id] = NoRow
                  \/ \E id \in updated : scheduled[id] = NoRow
        rows == [ id \in Ids |-> IF id \in inserted THEN r.scheduled[id]
                                 ELSE IF id \in updated
                                 THEN [ r.scheduled[id] EXCEPT !.character_id = scheduled[id].character_id ]
                                 ELSE NoRow ]
    IN  /\ q.pc = "upsert_commit"
        /\ scheduled' = IF failed THEN scheduled
                        ELSE [ id \in Ids |-> IF rows[id] # NoRow THEN rows[id] ELSE scheduled[id] ]
        /\ outbound' = r.outbound
        /\ passes' = [ passes EXCEPT ![p] =
                        [ @ EXCEPT !.pc = "done", !.read = NoRead,
                                   !.committed = IF failed THEN @ ELSE rows ] ]
        /\ UNCHANGED << esiVars, delivered, historyVars, structure, completed, modifiers, refresh, now, task,
                        upstream, callers, client_session, instances, lastCall, rolled, tick >>

(***************************************************************************)
(* Calls of AppStructureState.set that overlap: set() awaits get(), which   *)
(* selects the latest row in a session of its own, and awaits the commit    *)
(* of the insert in another session; another call runs at either await.     *)
(* A call is a step for its get() and a step for the rest.                  *)
(***************************************************************************)
Callers == { 1, 2 }

NoCaller == [ pc |-> "idle", structure_id |-> Null, now_edict |-> EmptyDict, now_exists |-> FALSE,
              force_set |-> FALSE, obj |-> NoRow, before |-> 0, overlapped |-> FALSE, changed |-> FALSE ]

\* set(), up to the return of get(); before: the rows of the structure then,
\* overlapped: another call for the structure stands between its get() and
\* its insert
SetGet(c, structure_id, now_edict, now_exists, force_set) ==
    /\ callers[c].pc = "idle"
    /\ callers' = [ callers EXCEPT ![c] =
                    [ pc |-> "read", structure_id |-> structure_id, now_edict |-> now_edict,
                      now_exists |-> now_exists, force_set |-> force_set,
                      obj |-> StructureState_get(structure_history, structure_id),
                      before |-> RowsOfStructure(structure_history, structure_id),
                      overlapped |-> \E d \in Callers \ { c } :
                                        callers[d].pc = "read" /\ callers[d].structure_id = structure_id,
                      changed |-> FALSE ] ]
    /\ UNCHANGED << esiVars, delivered, dbVars, taskVars, upstream, passes, client_session, instances, lastCall,
                    rolled, tick >>

\* set(), from the row get() returned to the return
SetInsert(c) ==
    LET q == callers[c]
        r == HistorySet(structure_history, StructureColumns, CommonSkipkeys, q.obj, q.now_edict,
                        q.now_exists, q.force_set)
    IN  /\ q.pc = "read"
        /\ Len(r.rows) <= MaxRows
        /\ structure_history' = r.rows
        /\ callers' = [ callers EXCEPT ![c] = [ @ EXCEPT !.pc = "done", !.changed = r.changed ] ]
        /\ UNCHANGED << esiVars, delivered, extraction_history, observer_history, structure, scheduled, completed,
                        modifiers, refresh, taskVars, upstream, passes, client_session, instances,
                        lastCall, rolled, tick >>

(***************************************************************************)
(* AppTask (src/app/task.py): the constructor tests and sets the flag of    *)
(* its class in the shared session mapping and creates the task;            *)
(* manage_task awaits run() and clears the flag.  The constructor has no    *)
(* await, so it is one step; a task is a step when the loop first runs it   *)
(* and a step when run() ends.                                              *)
(***************************************************************************)
TaskClasses == { "AppStructurePollingTask", "AppAccessControlTask" }
MaxInstances == 4       \* AppTask objects constructed (bound)

\* client_session.get(self.name, False)
FlagSet(session, name) == name \in DOMAIN session /\ session[name]

\* (mutant) a constructor that creates its task whatever the flag says
ConstructUnguarded(name) ==
    /\ Len(instances) < MaxInstances
    /\ client_session' = DictOr(client_session, name, TRUE)
    /\ instances' = Append(instances, [ name |-> name, task |-> "created" ])
    /\ UNCHANGED << esiVars, delivered, dbVars, taskVars, upstream, passes, callers, lastCall, rolled, tick >>

\* AppTask.__init__
Construct(name) ==
    /\ Len(instances) < MaxInstances
    /\ IF FlagSet(client_session, name)
       THEN /\ instances' = Append(instances, [ name |-> name, task |-> "none" ])
            /\ UNCHANGED client_session
       ELSE /\ client_session' = DictOr(client_session, name, TRUE)
            /\ instances' = Append(instances, [ name |-> name, task |-> "created" ])
    /\ UNCHANGED << esiVars, delivered, dbVars, taskVars, upstream, passes, callers, lastCall, rolled, tick >>

\* the loop runs the task: manage_task enters its try and awaits run()
TaskStart(i) ==
    /\ instances[i].task = "created"
    /\ instances' = [ instances EXCEPT ![i].task = "running" ]
    /\ UNCHANGED << esiVars, delivered, dbVars, taskVars, upstream, passes, callers, client_session, lastCall,
                    rolled, tick >>

\* the task is cancelled before the loop ran it: the coroutine is closed
\* without entering manage_task
TaskCancelUnstarted(i) ==
    /\ instances[i].task = "created"
    /\ instances' = [ instances EXCEPT ![i].task = "cancelled" ]
    /\ UNCHANGED << esiVars, delivered, dbVars, taskVars, upstream, passes, callers, client_session, lastCall,
                    rolled, tick >>

\* manage_task, from the end of run(): run() returned, or the task was
\* cancelled at an await of run() (CancelledError, caught and logged), or
\* another exception left run() (not caught: it leaves manage_task before the
\* flag is cleared)
RunEnd(i, outcome) ==
    /\ instances[i].task = "running"
    /\ instances' = [ instances EXCEPT ![i].task = outcome ]
    /\ client_session' = IF outcome \in { "returned", "cancelled" }
                         THEN DictOr(client_session, instances[i].name, FALSE)
                         ELSE client_session
    /\ UNCHANGED << esiVars, delivered, dbVars, taskVars, upstream, passes, callers, lastCall, rolled, tick >>

(***************************************************************************)
(* pages() and the cache entry of the resource.  A 200 of the first page   *)
(* stores json:{url}, pages:{url} and etag:{url} (esi.py 263-276); the     *)
(* call that stored them goes on to gather the pages 2..N and returns.     *)
(* What that call returned is kept beside the entry, so that a later call  *)
(* whose first page is answered 304 can be compared with it.               *)
(***************************************************************************)
NoDelivery == [ storing |-> FALSE, known |-> FALSE, data |-> None ]

\* pages() returns: the call that stored the entry leaves what it returned
Deliver ==
    delivered' = IF call'.pc = "returned" /\ delivered.storing
                 THEN [ storing |-> FALSE, known |-> TRUE, data |-> call'.result_data ]
                 ELSE delivered

PagesCall ==
    /\ CallPages
    /\ delivered' = [ delivered EXCEPT !.storing = FALSE ]

\* a first-page request; lines 263-276 store the entry on a 200 with an ETag
PagesRequest(r) ==
    /\ call.op = "pages"
    /\ Request(r)
    /\ delivered' = IF PagesCacheStore([ cache EXCEPT ![1] = NoEntry ], r)[1] # NoEntry
                    THEN [ NoDelivery EXCEPT !.storing = TRUE ]
                    ELSE delivered

\* what the upstream answers while pages() is followed: a 200 that is read
\* or whose read raises, a 304, a status that ends the loop and one that is
\* retried
PagesResponses(url, if_none_match) ==
    { r \in Responses(url, if_none_match) :
        /\ r.kind = "response"
        /\ r.status \in { OK, NOT_MODIFIED, BAD_REQUEST, GATEWAY_TIMEOUT }
        /\ r.body # "connect_error"
        /\ r.status # OK => r.body # "error" }

(***************************************************************************)
(* Specifications.                                                         *)
(***************************************************************************)
InitDb ==
    /\ structure = [ id \in Ids |-> NoRow ]
    /\ structure_history = << >>
    /\ extraction_history = << >>
    /\ observer_history = << >>
    /\ scheduled = [ id \in Ids |-> NoRow ]
    /\ completed = [ id \in Ids |-> NoRow ]
    /\ modifiers = [ id \in Ids |-> Null ]
    /\ refresh = [ co \in Corporations |-> NoRow ]

InitTask ==
    /\ outbound = << >>
    /\ now = 0
    /\ task = TaskSelect
    /\ lastCall = NoCall
    /\ rolled = NoRoll
    /\ tick = NoTick

InitOverlap ==
    /\ upstream = [ version |-> 1, data |-> [ id \in Ids |-> Null ] ]
    /\ passes = [ p \in Passes |-> NoPass ]
    /\ callers = [ c \in Callers |-> NoCaller ]
    /\ client_session = EmptyDict
    /\ instances = << >>
    /\ delivered = NoDelivery

Init == InitEsi /\ InitDb /\ InitTask /\ InitOverlap

\* AppESI: the client against the upstream
NextEsi ==
    \/ \E url \in Urls \ { 1 } : CallGet(url) /\ UNCHANGED << dbVars, taskVars, overlapVars, lastCall, rolled, tick >>
    \/ CallPost /\ UNCHANGED << dbVars, taskVars, overlapVars, lastCall, rolled, tick >>
    \/ CallPages /\ UNCHANGED << dbVars, taskVars, overlapVars, lastCall, rolled, tick >>
    \/ \E r \in Responses(call.url, call.if_none_match) :
            Request(r) /\ UNCHANGED << dbVars, taskVars, overlapVars, lastCall, rolled, tick >>
    \/ Wake /\ UNCHANGED << dbVars, taskVars, overlapVars, lastCall, rolled, tick >>
    \/ Return /\ UNCHANGED << dbVars, taskVars, overlapVars, lastCall, rolled, tick >>
    \/ PagesFanOut /\ UNCHANGED << dbVars, taskVars, overlapVars, lastCall, rolled, tick >>
    \/ \E p \in DOMAIN sub : \E r \in Responses(p, sub[p].if_none_match) :
            SubRequest(p, r) /\ UNCHANGED << dbVars, taskVars, overlapVars, lastCall, rolled, tick >>
    \/ \E p \in DOMAIN sub : SubWake(p) /\ UNCHANGED << dbVars, taskVars, overlapVars, lastCall, rolled, tick >>
    \/ PagesGather /\ UNCHANGED << dbVars, taskVars, overlapVars, lastCall, rolled, tick >>
    \/ \E url \in Urls : CacheExpire(url) /\ UNCHANGED << dbVars, taskVars, overlapVars, lastCall, rolled, tick >>

SpecEsi == Init /\ [][NextEsi]_vars

\* the store methods called one at a time, for the entities of one corporation
NextStore ==
    \/ \E id \in Ids : \E a \in ForId(Arguments(StructureSnapshots({ 1 }), "structure"), "structure_id", id) :
            CallStructureSet(id, a[1], a[2], a[3])
    \/ \E id \in Ids : \E a \in ForId(Arguments(ExtractionSnapshots({ 1 }), "extraction"), "structure_id", id) :
            CallExtractionSet(id, a[1], a[2], a[3])
    \/ \E id \in Ids : \E a \in ForId(Arguments(ExtractionSnapshots({ 1 }), "extraction"), "structure_id", id) :
            ~a[3] /\ CallExtractionAdd(id, a[1], a[2])
    \/ \E id \in Ids : \E a \in ForId(Arguments(ObserverSnapshots({ 1 }), "observer"), "observer_id", id) :
            CallObserverSet(id, 1, a[1], a[2], a[3])

SpecStore == Init /\ [][NextStore]_vars

\* the entities of the calls against the failing database
FailingIds == { 1 }

\* calls of AppStructureState.set and AppExtractionState.add against a
\* database that fails a statement now and then
NextStoreFailing ==
    \/ \E id \in FailingIds : \E a \in ForId(Arguments(StructureSnapshots({ 1 }), "structure"), "structure_id", id) :
            CallStructureSet(id, a[1], a[2], a[3])
    \/ \E id \in FailingIds : \E a \in ForId(Arguments(ExtractionSnapshots({ 1 }), "extraction"), "structure_id", id) :
            ~a[3] /\ CallExtractionAdd(id, a[1], a[2])
    \/ \E id \in FailingIds : \E a \in ForId(Arguments(StructureSnapshots({ 1 }), "structure"), "structure_id", id) :
            \E fault \in StoreFaults : CallStructureSetFailing(id, a[1], a[2], a[3], fault)
    \/ \E id \in FailingIds : \E a \in ForId(Arguments(ExtractionSnapshots({ 1 }), "extraction"), "structure_id", id) :
            \E fault \in StoreFaults : ~a[3] /\ CallExtractionAddFailing(id, a[1], a[2], fault)

SpecStoreFailing == Init /\ [][NextStoreFailing]_vars

\* the three passes for the sessions of the corporations' characters
\* (character c is the one of corporation c), before and after the
\* extractions have arrived and decayed.  Corporation 1 lists every
\* structure and its extractions; of the structures, the other corporations
\* list structure 1, which changes hands.  What a listing says of a
\* structure or an extraction does not vary.
NextPoll ==
    \/ \E co \in Corporations : \E r \in EsiResults(IF co = 1 THEN Ids ELSE { 1 }, { 1 }) :
            RunStructures(co, co, r)
    \/ \E r \in EsiResults(Ids, { 1 }) : RunExtractions(1, 1, r)
    \/ \E co \in Corporations, r \in EsiResults(Ids, Fields) : RunObservers(co, co, r)
    \/ ClockAdvance(MaxHours * Hour + 1)

SpecPoll == Init /\ [][NextPoll]_vars

\* the foreign keys of app_scheduled_extraction and app_completed_extraction
\* to app_structure hold of the tables
ForeignKeys ==
    \A id \in Ids : (scheduled[id] # NoRow \/ completed[id] # NoRow) => structure[id] # NoRow

\* the extractions pass of one corporation for one structure as time
\* passes, with the modifiers an operator sets; the structures pass lists the
\* structure
NextRoll ==
    \/ \E r \in { x \in EsiResults({ 1 }, { 1 }) : HasData(x) /\ x.data[1] # Null } :
            RunStructures(1, 1, r)
    \/ \E r \in EsiResults({ 1 }, Fields) : RunExtractions(1, 1, r)
    \/ \E d \in { 1, Hour } : ClockAdvance(d)
    \/ \E id \in ModifiedIds, m \in ModifierValues : SetModifier(id, m)

SpecRoll == Init /\ [][NextRoll]_vars

\* the same, with extractions passes in which the database fails the commit of
\* roll_extractions
NextCommit ==
    \/ NextRoll
    \/ \E r \in EsiResults({ 1 }, Fields) : RunExtractionsRollFailed(1, 1, r)

SpecCommit == Init /\ [][NextCommit]_vars

\* the scheduler: a tick polls the due corporations; the upstream answers
\* the structures fetch with 200 (without data, or listing structure 1 for
\* corporation 1 and nothing for the others), the extractions fetch without
\* data and the observers fetch with 304
NextSched ==
    \/ \E table \in CredentialTables : \E q \in QueryOrders(Selected(table, now)) : RunOnce(table, q)
    \/ \E structures \in { r \in EsiResults({ 1 }, { 1 }) :
                                /\ r.status = OK
                                /\ r.data # None => (r.data[1] # Null <=> Polling = 1) },
          extractions \in { r \in EsiResults({}, {}) : r.data = None },
          observers \in { r \in EsiResults({}, {}) : r.status = NOT_MODIFIED } :
            PollNext(structures, extractions, observers)
    \/ Elapse
    \/ RunOnceReturn
    \/ TaskWake

SpecSched == Init /\ [][NextSched]_vars

\* the scheduler with what can go wrong in a tick: either query of the
\* select raises part-way, a pass raises on its listing or on a failed store
\* read (one pass of a cycle at most), the write of the refresh time fails.
\* Character 1, of corporation 1, is the one with credentials; the corporation
\* owns structure 1, its extraction and observer 1.
FaultTables ==
    { table \in CredentialTables : \A c \in table : c \in UsableCredentials /\ c.character_id = 1 }

NextFault ==
    \/ \E table \in FaultTables : \E q \in QueryOrders(Selected(table, now)) :
            \E streamed \in 0 .. Len(q), read \in { Corporations, {} } :
                RunOnceOrFail(table, q, streamed, read)
    \/ \E structures \in { r \in EsiResults({ 1 }, { 1 }) :
                                HasData(r) /\ (r.data[1] # Null => Polling = 1) },
          extractions \in { r \in EsiResults({ 1 }, { 1 }) :
                                HasData(r) /\ (r.data[1] # Null <=> Polling = 1) },
          observers \in { r \in EsiResults({ 1 }, { 1 }) :
                                \/ r.status = NOT_MODIFIED
                                \/ HasData(r) /\ (r.data[1] # Null <=> Polling = 1) },
          faults \in { f \in [ run_structures : PassFaults, run_extractions : PassFaults,
                               run_observers : PassFaults \ { "get" } ] :
                            \A a, b \in DOMAIN f : (f[a] # "none" /\ f[b] # "none") => a = b },
          recorded \in BOOLEAN :
            PollNextOrRaise(structures, extractions, observers, faults, recorded)
    \/ RunCatch
    \/ RunOnceReturn
    \/ TaskWake
SpecFault == Init /\ [][NextFault]_vars

\* the scheduler when one corporation's cycle raises in every tick:
\* characters 1 and 2 hold usable credentials of corporations 1 and 2 in
\* every tick; the listing of corporation 1's structures has a record that
\* does not parse, corporation 2 lists structure 2 or nothing.  run() calls
\* run_once again at once after an exception, so no time passes.  The event
\* loop keeps running the task and each of its awaits completes, hence the
\* weak fairness of its steps
StarveTables ==
    { table \in CredentialTables :
        /\ \A c \in table : c \in UsableCredentials /\ c.corporation_id = c.character_id
        /\ \A ch \in { 1, 2 } : \E c \in table : c.character_id = ch }

NextStarve ==
    \/ \E table \in StarveTables : \E q \in QueryOrders(Selected(table, now)) : RunOnce(table, q)
    \/ \E structures \in { r \in EsiResults({ 1, 2 }, { 1 }) :
                                /\ HasData(r)
                                /\ r.data[1] # Null <=> Polling = 1
                                /\ r.data[2] # Null => Polling = 2 },
          extractions \in { r \in EsiResults({}, {}) : r.status = OK /\ r.data = None },
          observers \in { r \in EsiResults({}, {}) : r.status = NOT_MODIFIED } :
            PollNextOrRaise(structures, extractions, observers,
                            [ NoFaults EXCEPT !.run_structures = IF Polling = 1 THEN "record" ELSE "none" ],
                            TRUE)
    \/ RunCatch
SpecStarve == Init /\ [][NextStarve]_vars /\ WF_vars(NextStarve)

\* get() of one url of a resource in versions, alone and overlapped by
\* another call for the same url
NextCache ==
    \/ CallGet(1) /\ UNCHANGED << dbVars, taskVars, overlapVars, lastCall, rolled, tick >>
    \/ \E r \in VersionedResponses(1, NoEtag) :
            CallGetOverlapped(1, r) /\ UNCHANGED << dbVars, taskVars, overlapVars, lastCall, rolled, tick >>
    \/ \E r \in VersionedResponses(call.url, call.if_none_match) :
            Request(r) /\ UNCHANGED << dbVars, taskVars, overlapVars, lastCall, rolled, tick >>
    \/ Wake /\ UNCHANGED << dbVars, taskVars, overlapVars, lastCall, rolled, tick >>
    \/ Return /\ UNCHANGED << dbVars, taskVars, overlapVars, lastCall, rolled, tick >>
    \/ CacheExpire(1) /\ UNCHANGED << dbVars, taskVars, overlapVars, lastCall, rolled, tick >>
SpecCache == Init /\ [][NextCache]_vars

\* two passes over corporation 1 that overlap, after passes that did not,
\* while the corporation changes the extraction of structure 1 and two hours
\* pass; the structures pass lists the structure
NextOverlap ==
    \/ \E r \in { x \in EsiResults({ 1 }, { 1 }) : HasData(x) /\ x.data[1] # Null } :
            RunStructures(1, 1, r)
    \/ /\ \A p \in Passes : passes[p].pc = "idle"
       /\ RunExtractions(1, 1, [ status |-> OK, data |-> upstream.data ])
    \/ \E r \in { x \in EsiResults({ 1 }, Fields) : HasData(x) } : UpstreamChange(r.data)
    \/ \E p \in Passes :
        \E r \in { [ status |-> NOT_MODIFIED, data |-> None ], [ status |-> OK, data |-> upstream.data ] } :
            PassFetch(p, r)
    \/ \E p \in Passes : PassScan(p)
    \/ \E p \in Passes : PassRollSelect(p)
    \/ \E p \in Passes : PassRollCommit(p)
    \/ \E p \in Passes : PassUpsertSelect(p)
    \/ \E p \in Passes : PassUpsertCommit(p)
    \/ ClockAdvance(Hour)

SpecOverlap == Init /\ [][NextOverlap]_vars

\* the arguments of the calls that overlap: a snapshot of the structure as
\* character 1 of corporation 1 sees it, present or gone, forced or not
OverlapArguments(structure_id) ==
    { << S, e, f >> : S \in { x \in StructureSnapshots({ 1 }) :
                                /\ x.structure_id = structure_id /\ x.character_id = 1
                                /\ "state" \in DOMAIN x },
                     e \in BOOLEAN, f \in BOOLEAN }

\* two calls of AppStructureState.set for structure 1 that overlap, after
\* calls that did not
NextSetOverlap ==
    \/ \E a \in OverlapArguments(1) :
            /\ \A c \in Callers : callers[c].pc = "idle"
            /\ CallStructureSet(1, a[1], a[2], a[3])
    \/ \E c \in Callers : \E a \in OverlapArguments(1) : SetGet(c, 1, a[1], a[2], a[3])
    \/ \E c \in Callers : SetInsert(c)

SpecSetOverlap == Init /\ [][NextSetOverlap]_vars

\* the tasks of one shared session: constructors, the loop running the tasks,
\* run() ending
NextTask ==
    \/ \E name \in TaskClasses : Construct(name)
    \/ \E i \in DOMAIN instances : TaskStart(i)
    \/ \E i \in DOMAIN instances : TaskCancelUnstarted(i)
    \/ \E i \in DOMAIN instances : \E outcome \in { "returned", "cancelled", "raised" } : RunEnd(i, outcome)

SpecTask == Init /\ [][NextTask]_vars

\* pages() alone, with what it returned when the entry of the resource was stored
NextPages ==
    \/ PagesCall /\ UNCHANGED << dbVars, taskVars, upstream, passes, callers, client_session, instances, lastCall, rolled, tick >>
    \/ \E r \in PagesResponses(call.url, call.if_none_match) :
            PagesRequest(r) /\ UNCHANGED << dbVars, taskVars, upstream, passes, callers, client_session, instances, lastCall, rolled, tick >>
    \/ Wake /\ UNCHANGED << dbVars, taskVars, overlapVars, lastCall, rolled, tick >>
    \/ PagesFanOut /\ Deliver /\ UNCHANGED << dbVars, taskVars, upstream, passes, callers, client_session, instances, lastCall, rolled, tick >>
    \/ \E p \in DOMAIN sub : \E r \in PagesResponses(p, sub[p].if_none_match) :
            SubRequest(p, r) /\ UNCHANGED << dbVars, taskVars, overlapVars, lastCall, rolled, tick >>
    \/ \E p \in DOMAIN sub : SubWake(p) /\ UNCHANGED << dbVars, taskVars, overlapVars, lastCall, rolled, tick >>
    \/ PagesGather /\ Deliver /\ UNCHANGED << dbVars, taskVars, upstream, passes, callers, client_session, instances, lastCall, rolled, tick >>
    \/ \E url \in Urls : CacheExpire(url) /\ UNCHANGED << dbVars, taskVars, overlapVars, lastCall, rolled, tick >>

SpecPages == Init /\ [][NextPages]_vars

\* set() for one structure and one observer, seen by the characters of either corporation
NextIdentity ==
    \/ \E a \in ForId(Arguments(StructureSnapshots(Corporations), "structure"), "structure_id", 1) :
            CallStructureSet(1, a[1], a[2], a[3])
    \/ \E co \in Corporations :
        \E a \in ForId(Arguments(ObserverSnapshots({ co }), "observer"), "observer_id", 1) :
            CallObserverSet(1, co, a[1], a[2], a[3])

SpecIdentity == Init /\ [][NextIdentity]_vars

(***************************************************************************)
(* Claims about AppESI.                                                    *)
(***************************************************************************)
RECURSIVE AllPages(_)
\* the records of pages 1..n, in page order
AllPages(n) == IF n = 0 THEN << >> ELSE AllPages(n - 1) \o PageJson(n)

\* C2: pages() is all-or-nothing: when it returns data for a resource whose
\* first page announced N pages, the data holds the records of every page
\* 1..N, and when the get() of some page 2..N delivered no records (error
\* status, attempts exhausted, exception while reading the response) it
\* returns no data.
C2_PagesAllOrNothing ==
    (call.op = "pages" /\ call.pc = "returned") =>
        /\ call.result_data # None => call.result_data = AllPages(call.maxpageno)
        /\ (\E p \in DOMAIN sub : sub[p].result_data = None) => call.result_data = None

\* C6: in get(), a run of k consecutive error responses with a retryable
\* status s is followed by exactly k sleeps, one after each failed attempt
\* and before the next, each of ESI_ERROR_SLEEP_TIME * modifier[s]; while k
\* is below the attempt cap the next attempt is then issued.
C6_RetrySleeps ==
    (call.op = "get" /\ run.n >= 1 /\ run.status \notin { BAD_REQUEST, FORBIDDEN }) =>
        LET d == ESI_ERROR_SLEEP_TIME * (CASE run.status = 500 -> 19 [] run.status = 504 -> 37 [] OTHER -> 1)
        IN  /\ \A i \in 1 .. Len(run.sleeps) : run.sleeps[i] = d
            /\ call.pc = "sleep" => Len(run.sleeps) = run.n - 1 /\ call.sleep = d
            /\ call.pc = "request" => Len(run.sleeps) = run.n
            /\ (nAttempts = run.n /\ run.n < 11) =>
                    /\ call.pc \in { "sleep", "request" }
                    /\ nSleeps = Len(run.sleeps)

\* C7: a get() call issues at most 11 HTTP requests; every error status and
\* every connection-level error consumes one attempt, a connection-level
\* error that leaves attempts is followed by a flat ESI_ERROR_SLEEP_TIME
\* sleep, and with the attempts exhausted the call returns the last status
\* seen (the initial 404 when no response was ever received) with no data.
C7_GetBounded ==
    (call.op = "get" /\ call.pc \in { "request", "sleep", "done" }) =>
        /\ nAttempts <= 11
        /\ call.pc \in { "request", "sleep" } =>
                /\ call.attempts_remaining = 11 - nErrors
                /\ call.attempts_remaining > 0
                /\ nAttempts <= nErrors
        /\ connError =>
                /\ call.pc = "sleep" => call.sleep = 7
                /\ call.pc = "done" => call.attempts_remaining <= 0
        /\ (call.pc = "done" /\ call.attempts_remaining <= 0) =>
                /\ call.result_data = None
                /\ call.result_status = IF seen = NoStatus THEN 404 ELSE seen

\* C7 witness: the 11th attempt failed with a 500 and get() is about to return
C7_Witness ==
    /\ call.op = "get" /\ call.pc = "done"
    /\ nAttempts = 11 /\ call.attempts_remaining = 0
    /\ seen = 500 /\ call.result_status = 500 /\ call.result_data = None

\* the statuses the claim calls terminal for each operation
C8_Terminal(op) == IF op = "post" THEN { 400, 401, 403 } ELSE { 400, 403 }

\* C8: a 400 or 403 response to get() or to the first-page request of
\* pages(), and a 400, 401 or 403 response to post(), ends the call at once:
\* the step that receives it leaves the loop without a sleep, and the call
\* then returns that status with no data, issuing no further request.
C8_TerminalEndsCall ==
    [][ /\ (nAttempts' = nAttempts + 1 /\ seen' \in C8_Terminal(call'.op)) =>
            /\ call'.pc = "done"
            /\ call'.result_status = seen' /\ call'.result_data = None
            /\ nSleeps' = nSleeps
        /\ (call.pc = "done" /\ seen \in C8_Terminal(call.op) /\ call' # call) =>
            /\ call'.pc = "returned"
            /\ call'.result_status = seen /\ call'.result_data = None
            /\ sub' = << >>
      ]_vars

\* C14 as stated: get() sends If-None-Match only when the cache held both
\* an ETag and a body, and a 304 makes it return the body that the most
\* recent 200 stored for the url: the body the cache holds, of the version
\* the ETag sent names, never no data.
C14_NotModifiedBody ==
    (call.op = "get" /\ call.pc \in { "request", "sleep", "done" }) =>
        /\ call.if_none_match # NoEtag => call.previous_json # None
        /\ (call.pc = "done" /\ call.result_status = NOT_MODIFIED) =>
                /\ call.if_none_match # NoEtag
                /\ call.result_data # None
                /\ call.result_data = VersionJson(call.url, call.if_none_match)
                /\ cache[call.url] # NoEntry => call.result_data = cache[call.url].json

\* C16: a 401 response is terminal for get(), pages() and post(): the
\* step that receives it ends the loop with no backoff sleep, and the call
\* then returns 401 with no data, issuing no further request.  Stated for
\* the responses whose error body is read without a connection-level error.
C16_UnauthorizedEndsCall ==
    [][ /\ (nAttempts' = nAttempts + 1 /\ seen' = UNAUTHORIZED /\ ~connError') =>
            /\ call'.pc = "done"
            /\ call'.result_status = UNAUTHORIZED /\ call'.result_data = None
            /\ nSleeps' = nSleeps
        /\ (call.pc = "done" /\ seen = UNAUTHORIZED /\ call' # call) =>
            /\ call'.pc = "returned"
            /\ nAttempts' = nAttempts /\ nSleeps' = nSleeps ]_vars

(***************************************************************************)
(* Claims about the history stores.                                        *)
(***************************************************************************)
\* C1: for each of the three stores, set(id, S, now_exists = true) called
\* twice in a row with the same non-empty snapshot S, force_set not given,
\* on an id without a history row: the first call appends a row and returns
\* true, the second appends nothing and returns false, and the id has exactly
\* one row.
C1_SetTwice ==
    ( /\ lastCall.op = "set" /\ lastCall.repeat
      /\ lastCall.exists /\ ~lastCall.force
      /\ lastCall.edict_in # EmptyDict
      /\ lastCall.first.before = 0 ) =>
        /\ lastCall.first.changed /\ lastCall.first.after = 1
        /\ ~lastCall.changed /\ lastCall.after = 1

\* C1 witness: the observer store has been given the same dict twice for an
\* observer without history, and holds one row for it
C1_Witness ==
    /\ lastCall.store = "observer" /\ lastCall.op = "set" /\ lastCall.repeat
    /\ lastCall.exists /\ ~lastCall.force
    /\ "exists" \in DOMAIN lastCall.edict_in
    /\ lastCall.first.before = 0 /\ lastCall.first.changed
    /\ ~lastCall.changed
    /\ RowsOfObserver(observer_history, lastCall.key[1], lastCall.key[2]) = 1

(***************************************************************************)
(* Claims about roll_extractions and the passes.                           *)
(***************************************************************************)
\* the structures for which the last roll_extractions wrote a completed row
C3_Inserted == { id \in rolled.changed : rolled.completed_after[id] # rolled.completed_before[id] }

C4_Lifetime(id) ==
    (2 * Day * (IF rolled.modifiers[id] = Null THEN ModifierUnit ELSE rolled.modifiers[id]))
        \div ModifierUnit

C5_IdsLive ==
    \A co \in Corporations :
        /\ \A id \in StructureState_structure_ids(structure_history, co) :
                StructureState_get(structure_history, id).exists
        /\ \A id \in ExtractionState_structure_ids(scheduled, structure_history, co) :
                LET obj == ExtractionState_get(extraction_history, id)
                IN  obj = NoRow \/ obj.exists
        /\ \A id \in ObserverState_observer_ids(observer_history, co) :
                ObserverState_get(observer_history, id, co).exists

(***************************************************************************)
(* Claims about the scheduler.                                             *)
(***************************************************************************)
\* the refresh time the current tick read for a corporation it found eligible
C9_Cursor(corporation_id) ==
    tick.times[CHOOSE i \in DOMAIN tick.available :
                    tick.available[i].corporation_id = corporation_id]

\* the eligible corporations that are due in the current tick, in the order
\* of their credentials
C9_Due ==
    LET corporations == [ i \in DOMAIN tick.available |-> tick.available[i].corporation_id ]
    IN  SelectSeq(corporations,
                  LAMBDA co : C9_Cursor(co) + CORPORATION_REFRESH_INTERVAL_SECONDS * TicksPerSecond
                                <= tick.now)

C10_Oldest ==
    tick.times[CHOOSE i \in DOMAIN tick.times : \A j \in DOMAIN tick.times : tick.times[i] <= tick.times[j]]

\* C10: when the oldest eligible cursor t0 has t0 + refresh_interval > now,
\* the tick sleeps once, for t0 + refresh_interval - now, fetches nothing
\* and writes no refresh time, and run_once is then called again.
C10_SingleSleep ==
    ( /\ tick.ran /\ tick.available # << >>
      /\ C10_Oldest + CORPORATION_REFRESH_INTERVAL_SECONDS * TicksPerSecond > tick.now ) =>
        LET remaining == C10_Oldest + CORPORATION_REFRESH_INTERVAL_SECONDS * TicksPerSecond - tick.now
        IN  /\ tick.fetches = 0 /\ tick.writes = 0 /\ tick.polled = << >>
            /\ task.pc \in { "sleep", "select" }
            /\ task.pc = "sleep" <=> ~tick.returned
            /\ task.pc = "sleep" => task.sleep = remaining /\ tick.sleeps = << >>
            /\ task.pc = "select" => tick.sleeps = << remaining >> /\ now = tick.now + remaining

\* C10 witness: a tick found the oldest cursor not yet due, slept the part of
\* the interval that remained and returned
C10_Witness ==
    /\ tick.ran /\ tick.returned /\ tick.available # << >>
    /\ tick.polled = << >>
    /\ Len(tick.sleeps) = 1
    /\ tick.sleeps[1] < CORPORATION_REFRESH_INTERVAL_SECONDS * TicksPerSecond
    /\ tick.sleeps[1] = C10_Oldest + CORPORATION_REFRESH_INTERVAL_SECONDS * TicksPerSecond - tick.now
    /\ task.pc = "select"

(***************************************************************************)
(* Claims about exceptions in the scheduler.                               *)
(***************************************************************************)
\* C11: the loop of run() never ends because of an exception.  The task is
\* always at the select, in a sleep, in the loop over the corporations or in
\* the except clause of run(); every such state has a successor (but the
\* select past the last tick of the model); an exception that left run_once
\* is followed by the select; and a tick that has ended, with or without an
\* exception in it, has the loop at the select again.
C11_LoopContinues ==
    /\ task.pc \in { "select", "sleep", "poll", "raised" }
    /\ (task.pc = "select" =>
            now <= MaxIntervals * CORPORATION_REFRESH_INTERVAL_SECONDS * TicksPerSecond
                        + PassSeconds * TicksPerSecond)
        => ENABLED <<NextFault>>_vars
    /\ task.pc = "raised" => tick.exceptions # {} /\ ENABLED <<RunCatch /\ task'.pc = "select">>_vars
    /\ tick.returned => task.pc = "select"
    /\ (tick.exceptions # {} /\ ~tick.returned) => task.pc \in { "sleep", "poll", "raised" }

\* C11 witness: a tick that followed a tick with an exception has ended, after
\* the query of the refresh times raised in it and then a pass, and the loop
\* is at the select
C11_Witness ==
    /\ tick.ran /\ tick.after_exception /\ tick.returned
    /\ tick.exceptions = { "get_refresh_times", "run_extractions" }
    /\ task.pc = "select"

\* C12 as stated: in a corporation's cycle every pass its credential's roles
\* permit is run, also after one of them raised.
C12_PassesContained ==
    tick.cycle.raised => tick.cycle.ran = tick.cycle.permitted

\* C13 as stated: with corporation 1's cycle raising an exception in every
\* tick, corporation 2, eligible and due in every tick until it is polled, is
\* eventually polled and its refresh time recorded.
C13_OthersPolled ==
    <>(refresh[2] # NoRow)

(***************************************************************************)
(* Claims about the history tables under the passes.                       *)
(***************************************************************************)
\* C15: the three history tables are append-only: a step of the poller
\* leaves every row of app_structure_history, app_extraction_history and
\* app_observer_history in place and unchanged, so each table is a prefix
\* of what it is after the step (and so of what it is in every later state).
C15_AppendOnly ==
    [][ /\ Len(structure_history) <= Len(structure_history')
        /\ SubSeq(structure_history', 1, Len(structure_history)) = structure_history
        /\ Len(extraction_history) <= Len(extraction_history')
        /\ SubSeq(extraction_history', 1, Len(extraction_history)) = extraction_history
        /\ Len(observer_history) <= Len(observer_history')
        /\ SubSeq(observer_history', 1, Len(observer_history)) = observer_history ]_vars

\* the structures pass has removed a structure whose extraction has history
\* (the deletes of app_structure and of the extraction tables ran)
C15_Witness ==
    /\ \E i, j \in DOMAIN structure_history :
            /\ i < j
            /\ structure_history[i].structure_id = structure_history[j].structure_id
            /\ structure_history[i].exists /\ ~structure_history[j].exists
    /\ Len(extraction_history) >= 2
    /\ \E i \in DOMAIN structure_history, j \in DOMAIN extraction_history :
            ~structure_history[i].exists /\ extraction_history[j].structure_id = structure_history[i].structure_id

\* the listing data says of corporation_id's observers what the latest rows
\* of app_observer_history say: the observers listed are the live ones, each
\* with the last_updated of its latest row.  This is the case after a pass
\* over data answered with 200.
C17_ListedAsStored(data, corporation_id) ==
    /\ { id \in Ids : data[id] # Null } = ObserverState_observer_ids(observer_history, corporation_id)
    /\ \A id \in Ids : data[id] # Null =>
            LET obj == ObserverState_get(observer_history, id, corporation_id)
            IN  obj # NoRow /\ obj.exists /\ obj.last_updated = data[id]

\* C17: an observers pass over the data the pass before it was given (both
\* fetches answered 200 with the same records) appends no row to
\* app_observer_history.
C17_SecondPassAppendsNothing ==
    [][ \A co \in Corporations : \A r \in EsiResults(Ids, Fields) :
            ( /\ HasData(r)
              /\ C17_ListedAsStored(r.data, co)
              /\ observer_history' = run_observers(Tables, co, co, r).observer_history )
            => observer_history' = observer_history ]_vars

\* C18: a structures pass answered with 200 appends a tombstone (the prior
\* fields, exists = false) for every structure of the corporation whose latest
\* row has exists = true and which the listing does not hold, whatever the
\* rows before the latest one are.
C18_AbsentTombstoned ==
    [][ \A co \in Corporations : \A r \in EsiResults(Ids, { 1 }) :
            (HasData(r) /\ RunStructures(co, co, r)) =>
                \A id \in Ids :
                    LET obj == StructureState_get(structure_history, id)
                        after == StructureState_get(structure_history', id)
                    IN  (obj # NoRow /\ obj.exists /\ obj.corporation_id = co /\ r.data[id] = Null) =>
                            /\ after.id > obj.id
                            /\ ~after.exists
                            /\ after.state = obj.state /\ after.corporation_id = obj.corporation_id ]_vars

\* C19: set(id, S, True) with a non-empty S appends a row with exists = true
\* and returns True whenever the latest row of id is a tombstone, also when S
\* equals the tombstone in every compared column; and a call that is not
\* forced appends a row only if there is no prior row, exists flips, or a
\* column that is not skipped differs.
C19_FlipRecorded ==
    [][ \A id \in Ids : \A a \in ForId(Arguments(StructureSnapshots({ 1 }), "structure"), "structure_id", id) :
            CallStructureSet(id, a[1], a[2], a[3]) =>
                LET obj == StructureState_get(structure_history, id)
                    appended == Len(structure_history') = Len(structure_history) + 1
                IN  /\ (a[2] /\ a[1] # EmptyDict /\ obj # NoRow /\ ~obj.exists) =>
                            /\ appended
                            /\ structure_history'[Len(structure_history')].exists
                            /\ structure_history'[Len(structure_history')].structure_id = id
                            /\ lastCall'.changed
                    /\ (appended /\ ~a[3]) =>
                            \/ obj = NoRow
                            \/ obj.exists # a[2]
                            \/ \E k \in StructureColumns \ CommonSkipkeys : obj[k] # DictGet(a[1], k) ]_vars

\* C20: structure_ids(corporation) and observer_ids(corporation) hold every
\* id whose most recent row belongs to the corporation and has exists = true,
\* whatever the rows before it, a tombstone included.
C20_IdsHoldLive ==
    \A co \in Corporations : \A id \in Ids :
        /\ LET obj == StructureState_get(structure_history, id)
           IN  (obj # NoRow /\ obj.exists /\ obj.corporation_id = co) =>
                    id \in StructureState_structure_ids(structure_history, co)
        /\ LET obj == ObserverState_get(observer_history, id, co)
           IN  (obj # NoRow /\ obj.exists) =>
                    id \in ObserverState_observer_ids(observer_history, co)

(***************************************************************************)
(* Claims about the refresh times.                                         *)
(***************************************************************************)
\* C21 as stated: a cycle in which every fetch of the corporation failed
\* (pages() returned no data: attempts exhausted, a terminal status, or a
\* page that failed) leaves the corporation's refresh time as the tick read it.
C21_FailedCycleKeepsCursor ==
    (tick.ran /\ tick.cycle.corporation_id # Null /\ tick.cycle.failed /\ ~tick.cycle.raised) =>
        RefreshTime(refresh, tick.cycle.corporation_id) = C9_Cursor(tick.cycle.corporation_id)

\* C22 as stated: after a corporation's cycle that raised nothing the
\* corporation has its row of app_periodic_task_timestamp (one row: the
\* corporation is the primary key) and the row's timestamp is the now the
\* tick captured, whether the row was there before or is the first one.
C22_CursorIsTickNow ==
    (tick.ran /\ tick.cycle.corporation_id # Null /\ ~tick.cycle.raised /\ tick.exceptions = {}) =>
        /\ refresh[tick.cycle.corporation_id] # NoRow
        /\ refresh[tick.cycle.corporation_id].timestamp = tick.now

(***************************************************************************)
(* Claims about cancelled and migrated extractions.                        *)
(***************************************************************************)
\* the MoonExtractionCompleted events the last roll_extractions put on the queue
\* for a structure
C23_CompletedEvents(id) ==
    { i \in DOMAIN rolled.events :
        rolled.events[i].event = "MoonExtractionCompleted" /\ rolled.events[i].structure_id = id }

C26_Migrated ==
    { id \in rolled.changed :
        /\ rolled.scheduled_before[id] # NoRow
        /\ rolled.completed_after[id] # NoRow
        /\ rolled.completed_after[id] # rolled.completed_before[id]
        /\ rolled.completed_after[id].chunk_arrival_time
                = rolled.scheduled_before[id].chunk_arrival_time }

C27_Events(queue) == { queue[i] : i \in DOMAIN queue }

C28_Inserted ==
    { id \in rolled.changed :
        /\ rolled.completed_after[id] # NoRow
        /\ rolled.completed_after[id] # rolled.completed_before[id] }

C29_NoSnapshotNoChange ==
    [][ \A co \in Corporations : \A r \in EsiResults(Ids, { 1 }) :
            (~HasData(r) /\ RunStructures(co, co, r)) =>
                /\ UNCHANGED << structure_history, structure, scheduled, completed >>
                /\ outbound' = << >> ]_vars

\* a structures pass without a listing has run (nothing on the queue) while
\* corporation 1 has a live structure with a scheduled extraction
C29_Witness ==
    /\ outbound = << >> /\ ~rolled.ran
    /\ \E id \in StructureState_structure_ids(structure_history, 1) :
            /\ structure[id] # NoRow
            /\ scheduled[id] # NoRow

\* C30: a call of set() or add() in which the database raised, in the read
\* of the latest row or in the insert, returns False and adds no history row
C30_FailedCallIsNoOp ==
    lastCall.fault # "none" =>
        /\ ~lastCall.changed
        /\ lastCall.after = lastCall.before

C32_OneRowAppended ==
    \A c \in Callers, d \in Callers :
        ( /\ c # d /\ callers[c].pc = "done" /\ callers[d].pc = "done"
          /\ callers[c].overlapped
          /\ callers[c].structure_id = callers[d].structure_id
          /\ callers[c].now_edict = callers[d].now_edict
          /\ callers[c].now_exists = callers[d].now_exists
          /\ ~callers[c].force_set /\ ~callers[d].force_set
          /\ callers[d].changed )
            => RowsOfStructure(structure_history, callers[c].structure_id) = callers[d].before + 1

(***************************************************************************)
(* Claims about the task flag of the shared session.                       *)
(***************************************************************************)
\* the instances of a class whose task exists and has not ended
Active(name) ==
    { i \in DOMAIN instances : instances[i].name = name /\ instances[i].task \in { "created", "running" } }

\* C33: a class has at most one active task in the shared session, its flag
\* is set while the task is active, and a constructor that finds the flag
\* set creates no task and leaves the flag and the other instances alone
C33_OneTaskPerClass ==
    /\ \A name \in TaskClasses :
        /\ Cardinality(Active(name)) <= 1
        /\ Active(name) # {} => FlagSet(client_session, name)
    /\ \A i \in DOMAIN instances :
        instances[i].task = "none" =>
            \E j \in 1 .. i - 1 : instances[j].name = instances[i].name /\ instances[j].task # "none"

\* a second instance of a class was constructed while the task of the first
\* was running, and has no task
C33_Witness ==
    \E i, j \in DOMAIN instances :
        /\ i < j /\ instances[i].name = instances[j].name
        /\ instances[i].task = "running" /\ instances[j].task = "none"

\* C34: when run() has ended, by returning, by the task's cancellation or by
\* an exception, the flag of the class is false
C34_FlagClearedAfterRun ==
    [][ \A i \in DOMAIN instances :
            (instances[i].task = "running" /\ instances'[i].task # "running") =>
                ~FlagSet(client_session', instances[i].name) ]_vars

(***************************************************************************)
(* Claims about the spacing of a corporation's cycles.                     *)
(***************************************************************************)
\* C35: the scheduler polls a corporation only when its refresh time plus
\* the refresh interval is not after the tick's now, and the refresh time a
\* cycle records is not before its tick's now; so two consecutive cycles
\* that polled the corporation and recorded its refresh time are at least a
\* refresh interval apart
C35_CyclesSpaced ==
    [][ \A co \in Corporations :
            tick'.polled = Append(tick.polled, co) =>
                /\ RefreshTime(refresh, co) + RefreshInterval <= task.now
                /\ refresh'[co] # refresh[co] => refresh'[co].timestamp >= task.now ]_vars

(***************************************************************************)
(* Claims about pages() answered from the cache.                           *)
(***************************************************************************)
\* C36: when the first-page request of pages() is answered 304, pages()
\* returns exactly the data it returned when the cache entry of the resource
\* was stored, whatever the upstream answers now for the pages 2..N.
C36_NotModifiedPages ==
    [][ ( /\ call.op = "pages"
          /\ call.pc \in { "done", "gather" }
          /\ call.result_status = NOT_MODIFIED
          /\ call'.pc = "returned" )
            => ( delivered.known /\ call'.result_data = delivered.data ) ]_vars

C38_AddSkipsFirstSeen ==
    [][ ( /\ lastCall' # lastCall
          /\ lastCall'.store = "extraction" /\ lastCall'.op = "add"
          /\ lastCall'.exists )
            => \A obj \in { ExtractionState_get(extraction_history, lastCall'.key[1]) } :
                 /\ obj = NoRow => ( extraction_history' = extraction_history /\ ~lastCall'.changed )
                 /\ extraction_history' # extraction_history =>
                        /\ obj # NoRow
                        /\ \E k \in ExtractionColumns \ { "character_id", "corporation_id" } :
                                DictGet(lastCall'.edict_in, k) # obj[k] ]_vars

\* C38 (amended): add(id, S, now_exists = true) with a non-empty S adds a row
\* and reports a change when the id has no row, and for an id with a row
\* exactly when the latest row differs from S in a column other than
\* character_id; otherwise it adds nothing and reports no change.
C38_AddWritesFirstSeen ==
    [][ ( /\ lastCall' # lastCall
          /\ lastCall'.store = "extraction" /\ lastCall'.op = "add"
          /\ lastCall'.exists /\ lastCall'.edict_in # EmptyDict )
            => \A obj \in { ExtractionState_get(extraction_history, lastCall'.key[1]) } :
                 IF obj = NoRow \/ \E k \in ExtractionColumns \ { "character_id" } :
                                        DictGet(lastCall'.edict_in, k) # obj[k]
                 THEN /\ Len(extraction_history') = Len(extraction_history) + 1
                      /\ ExtractionState_get(extraction_history', lastCall'.key[1]).exists
                      /\ lastCall'.changed
                 ELSE /\ extraction_history' = extraction_history
                      /\ ~lastCall'.changed ]_vars

\* an add() for a structure without a row that added the first row
C38_Witness ==
    /\ lastCall.store = "extraction" /\ lastCall.op = "add"
    /\ lastCall.exists /\ lastCall.changed
    /\ lastCall.before = 0 /\ lastCall.after = 1

(***************************************************************************)
(* Claims about the length of the backoff.                                 *)
(***************************************************************************)
\* C39: the sleep after a 500 or a 504 response is exactly twice the sleep
\* after any other retryable status: 2 * ESI_ERROR_SLEEP_TIME (14 s) against
\* ESI_ERROR_SLEEP_TIME (7 s).
C39_DoubledBackoff ==
    (call.pc = "sleep" /\ run.n >= 1 /\ ~connError) =>
        /\ ESI_ERROR_SLEEP_TIME = 7
        /\ call.sleep = IF run.status \in { INTERNAL_SERVER_ERROR, GATEWAY_TIMEOUT }
                        THEN 2 * ESI_ERROR_SLEEP_TIME
                        ELSE ESI_ERROR_SLEEP_TIME

(***************************************************************************)
(* Claims about the tombstones of the histories.                           *)
(***************************************************************************)
\* the rows of a history before row i that belong to the structure of row i
EarlierRows(rows, i) == { j \in 1 .. i - 1 : rows[j].structure_id = rows[i].structure_id }

\* every row with exists = false directly follows, among the rows of its
\* structure, a row with exists = true
TombstonesFollowLive(rows) ==
    \A i \in 1 .. Len(rows) :
        ~rows[i].exists =>
            /\ EarlierRows(rows, i) # {}
            /\ LatestRow(rows, EarlierRows(rows, i)).exists

\* C40: with the calls of one poller, made one at a time, for every id of
\* the structure and extraction histories the first row of the id has
\* exists = true and no two consecutive rows of the id both have
\* exists = false.
C40_TombstoneAfterLive ==
    /\ TombstonesFollowLive(structure_history)
    /\ TombstonesFollowLive(extraction_history)

\* a set() with now_exists = false for a structure whose latest row is a
\* tombstone, which added no row
C40_Witness ==
    /\ lastCall.store \in { "structure", "extraction" }
    /\ lastCall.op = "set"
    /\ ~lastCall.exists /\ ~lastCall.changed
    /\ \E rows \in { IF lastCall.store = "structure" THEN structure_history ELSE extraction_history } :
        \E obj \in { StructureState_get(rows, lastCall.key[1]) } :
            obj # NoRow /\ ~obj.exists

========================================================================
